---- MODULE Spec2Model ----
(***************************************************************************)
(* Model of the turn-based creature battle (BattleGame.jsx, battleCore.js, *)
(* battleCalculations.js, itemEffects.js, difficultySettings.js).          *)
(*                                                                         *)
(* The battle state is the reducer state of BattleGame (`state`), next to  *)
(* the component state `difficulty` and `actionInProgress`.  Handlers are  *)
(* closures created by one render: a timer callback scheduled by a handler *)
(* keeps the values of the render that created the handler.  `timer` is    *)
(* the pending setTimeout callback and `closure` the render it closes over.*)
(***************************************************************************)
EXTENDS Integers, Sequences, FiniteSets, TLC

\* ------------------------------------------------------------------ bounds
\* EndTurn is accepted only while turn <= MaxTurn.
MaxTurn == 3
\* A creature accepts defend only while it has fewer active effects than this.
MaxEffects == 1
\* The battle log is recorded up to this many entries (LogSpec only).
MaxLog == 12

\* ------------------------------------------------------------------ helpers
Min(a, b) == IF a < b THEN a ELSE b
Max(a, b) == IF a > b THEN a ELSE b

\* Math.round(n / d) for d > 0: floor(n/d + 1/2), halves go up.
RoundDiv(n, d) == (2 * n + d) \div (2 * d)

\* Math.floor(n / d) for d > 0.
FloorDiv(n, d) == n \div d

\* field.map(c => c.id === u.id ? u : c)
Replaced(field, u) == [i \in 1..Len(field) |-> IF field[i].id = u.id THEN u ELSE field[i]]

\* field.map(c => { if (isA && c.id === a.id) return a; if (isD && c.id === d.id) return d; return c; })
ReplacedBoth(field, isA, a, isD, d) ==
  [i \in 1..Len(field) |->
     IF isA /\ field[i].id = a.id THEN a
     ELSE IF isD /\ field[i].id = d.id THEN d ELSE field[i]]

\* Array.prototype.some(c => c.id === id)
HasId(s, id) == \E i \in 1..Len(s) : s[i].id = id

Range(s) == {s[i] : i \in 1..Len(s)}

\* A property that is absent from a JavaScript object.
Undefined == [undefined |-> TRUE]

\* ------------------------------------------------------ battleCalculations
\* Chances (criticalChance, dodgeChance) are kept in tenths of a percent, so
\* that 5 + 0.5*speed and 3 + 0.3*speed are integers; every other number is in
\* the program's unit.

getRarityMultiplier10(rarity) ==
  CASE rarity = "Legendary" -> 13
    [] rarity = "Epic" -> 12
    [] rarity = "Rare" -> 11
    [] OTHER -> 10

\* 4 * (1 + form * 0.25)
getFormMultiplier4(form) == 4 + form

DefaultStats ==
  [physicalAttack |-> 10, magicalAttack |-> 10, physicalDefense |-> 5,
   magicalDefense |-> 5, maxHealth |-> 50, initiative |-> 10,
   criticalChance |-> 50, dodgeChance |-> 30, energyCost |-> 3]

calculateDerivedStats(creature) ==
  IF creature.stats = Undefined THEN DefaultStats
  ELSE
    LET st == creature.stats
        rarity == getRarityMultiplier10(creature.rarity)
        form == getFormMultiplier4(creature.form)
        combo == 10 + creature.combination_level
    IN [physicalAttack |-> RoundDiv((20 + 4 * st.strength + st.speed) * form * combo, 80),
        magicalAttack |-> RoundDiv((20 + 4 * st.magic + st.energy) * form * combo, 80),
        physicalDefense |-> RoundDiv((10 + 3 * st.stamina + st.strength) * form * combo, 80),
        magicalDefense |-> RoundDiv((10 + 3 * st.energy + st.magic) * form * combo, 80),
        maxHealth |-> RoundDiv((50 + 3 * st.stamina + st.energy) * rarity * form, 40),
        initiative |-> 10 + 2 * st.speed,
        criticalChance |-> Min(50 + 5 * st.speed, 300),
        dodgeChance |-> Min(30 + 3 * st.speed, 200),
        energyCost |-> Max(1, RoundDiv(50 - st.energy, 5))]

\* ------------------------------------------------------------- itemEffects
\* A tool effect: statChanges is a record stat -> delta or Undefined,
\* healthChange is 0 when the payload has none, throws is TRUE when the
\* function raises a TypeError instead of returning.
ToolBaseEffect(type) ==
  CASE type = "energy" ->
         [statChanges |-> [energyCost |-> -1], healthChange |-> 0, duration |-> 3]
    [] type = "strength" ->
         [statChanges |-> [physicalAttack |-> 5], healthChange |-> 0, duration |-> 3]
    [] type = "magic" ->
         [statChanges |-> [magicalAttack |-> 5], healthChange |-> 0, duration |-> 3]
    [] type = "stamina" ->
         [statChanges |-> [physicalDefense |-> 5], healthChange |-> 10, duration |-> 3]
    [] type = "speed" ->
         [statChanges |-> [initiative |-> 5, dodgeChance |-> 30],
          healthChange |-> 0, duration |-> 3]
    [] OTHER -> [statChanges |-> Undefined, healthChange |-> 0, duration |-> 3]

ToolThrows == [throws |-> TRUE, statChanges |-> Undefined, healthChange |-> 0, duration |-> 0]

\* getToolEffect without its Shield case: the base effect of the tool's type.
getToolEffect_noShield(tool) ==
  LET baseEffect == ToolBaseEffect(tool.tool_type)
  IN [throws |-> FALSE, statChanges |-> baseEffect.statChanges,
      healthChange |-> baseEffect.healthChange, duration |-> baseEffect.duration]

getToolEffect(tool) ==
  LET effect == tool.tool_effect
      baseEffect == ToolBaseEffect(tool.tool_type)
      sc == baseEffect.statChanges
  IN CASE effect = "Surge" ->
            \* Object.entries(undefined) throws for a type without base stat changes
            IF sc = Undefined THEN ToolThrows
            ELSE [throws |-> FALSE,
                  statChanges |-> [k \in DOMAIN sc |-> sc[k] * 2],
                  healthChange |-> baseEffect.healthChange, duration |-> 1]
       [] effect = "Shield" ->
            [throws |-> FALSE,
             statChanges |-> [physicalDefense |-> 8, magicalDefense |-> 8],
             healthChange |-> 0, duration |-> 3]
       [] effect = "Echo" ->
            IF sc = Undefined THEN ToolThrows
            ELSE [throws |-> FALSE,
                  statChanges |-> [k \in DOMAIN sc |-> RoundDiv(sc[k] * 7, 10)],
                  healthChange |-> baseEffect.healthChange, duration |-> 5]
       [] effect = "Drain" ->
            [throws |-> FALSE,
             statChanges |-> [physicalAttack |-> 7, magicalAttack |-> 7,
                              physicalDefense |-> -3, magicalDefense |-> -3],
             healthChange |-> 0, duration |-> 3]
       [] effect = "Charge" ->
            \* Object.keys(undefined) throws as well
            IF sc = Undefined THEN ToolThrows
            ELSE [throws |-> FALSE, statChanges |-> <<>>,
                  healthChange |-> 0, duration |-> 3]
       [] OTHER ->
            [throws |-> FALSE, statChanges |-> sc,
             healthChange |-> baseEffect.healthChange, duration |-> baseEffect.duration]

\* magicPower = 1 + casterMagic * 0.1, times 10.
magicPower10(casterMagic) == 10 + casterMagic

\* A spell effect.  damage, healing, selfHeal and healthOverTime are 0 when the
\* payload has none.  n * magicPower is (n * magicPower10) / 10, exact for the
\* casters of the model, whose magic is a multiple of 10.
SpellBaseEffect(type, mp10) ==
  CASE type = "energy" ->
         [damage |-> 0, healing |-> 0, statChanges |-> [energyCost |-> -2], duration |-> 2]
    [] type = "strength" ->
         [damage |-> (15 * mp10) \div 10, healing |-> 0,
          statChanges |-> [physicalAttack |-> 7], duration |-> 2]
    [] type = "magic" ->
         [damage |-> 0, healing |-> 0,
          statChanges |-> [magicalAttack |-> 7, magicalDefense |-> 3], duration |-> 2]
    [] type = "stamina" ->
         [damage |-> 0, healing |-> (20 * mp10) \div 10,
          statChanges |-> [physicalDefense |-> 5], duration |-> 2]
    [] type = "speed" ->
         [damage |-> 0, healing |-> 0,
          statChanges |-> [initiative |-> 7, dodgeChance |-> 50, criticalChance |-> 50],
          duration |-> 2]
    [] OTHER -> [damage |-> 0, healing |-> 0, statChanges |-> Undefined, duration |-> 2]

getSpellEffect(spell, casterMagic) ==
  LET effect == spell.spell_effect
      mp10 == magicPower10(casterMagic)
      baseEffect == SpellBaseEffect(spell.spell_type, mp10)
  IN CASE effect = "Surge" ->
            [damage |-> baseEffect.damage * 2, healing |-> 0, selfHeal |-> 0,
             statChanges |-> Undefined, healthOverTime |-> 0, duration |-> 0]
       [] effect = "Shield" ->
            [damage |-> 0, healing |-> (10 * mp10) \div 10, selfHeal |-> 0,
             statChanges |-> [physicalDefense |-> 10, magicalDefense |-> 10],
             healthOverTime |-> 0, duration |-> 2]
       [] effect = "Echo" ->
            [damage |-> 0, healing |-> 0, selfHeal |-> 0, statChanges |-> Undefined,
             healthOverTime |->
               IF baseEffect.healing # 0
                 THEN RoundDiv(baseEffect.healing * mp10, 30)
                 ELSE IF baseEffect.damage # 0
                        THEN RoundDiv(-(baseEffect.damage * mp10), 30)
                        ELSE 0,
             duration |-> 3]
       [] effect = "Drain" ->
            [damage |-> (12 * mp10) \div 10, healing |-> 0,
             selfHeal |-> (6 * mp10) \div 10, statChanges |-> Undefined,
             healthOverTime |-> 0, duration |-> 0]
       [] effect = "Charge" ->
            [damage |-> 0, healing |-> 0, selfHeal |-> 0, statChanges |-> Undefined,
             healthOverTime |-> 0, duration |-> 1]
       [] OTHER ->
            [damage |-> baseEffect.damage, healing |-> baseEffect.healing, selfHeal |-> 0,
             statChanges |-> baseEffect.statChanges, healthOverTime |-> 0,
             duration |-> baseEffect.duration]

\* The object {}: stats || {}.
NoStats == [empty |-> TRUE]

OrNoStats(stats) == IF stats = Undefined THEN NoStats ELSE stats

\* getEffectivenessMultiplier testing the weak relation before the strong one.
getEffectivenessMultiplier100_weakFirst(attackType, attackerStats, defenderStats) ==
  IF attackerStats = Undefined \/ defenderStats = Undefined THEN 100
  ELSE IF defenderStats = NoStats THEN 100
  ELSE IF attackType = "physical"
    THEN IF defenderStats.magic > defenderStats.stamina THEN 75
         ELSE IF defenderStats.stamina > defenderStats.energy THEN 150 ELSE 100
    ELSE IF defenderStats.energy > defenderStats.magic THEN 75
         ELSE IF defenderStats.speed > defenderStats.strength THEN 150 ELSE 100

\* Effectiveness multiplier times 100.  attackerStats and defenderStats are the
\* base attributes; those of {} are undefined and undefined > undefined is
\* false in every comparison.
getEffectivenessMultiplier100(attackType, attackerStats, defenderStats) ==
  IF attackerStats = Undefined \/ defenderStats = Undefined THEN 100
  ELSE IF defenderStats = NoStats THEN 100
  ELSE IF attackType = "physical"
    THEN IF defenderStats.stamina > defenderStats.energy THEN 150
         ELSE IF defenderStats.magic > defenderStats.stamina THEN 75 ELSE 100
    ELSE IF defenderStats.speed > defenderStats.strength THEN 150
         ELSE IF defenderStats.energy > defenderStats.magic THEN 75 ELSE 100

getEffectivenessText(multiplier100) ==
  IF multiplier100 >= 150 THEN "super effective"
  ELSE IF multiplier100 <= 75 THEN "not very effective" ELSE "normal"

\* value || fallback for a number
OrElse(value, fallback) == IF value = 0 THEN fallback ELSE value

\* One attack.  The three Math.random() draws are inputs: variance100 is
\* 100 * (0.9 + random * 0.2); criticalRoll and dodgeRoll are random * 100 in
\* tenths of a percent (0 .. 999).
calculateDamage(attacker, defender, attackType, variance100, criticalRoll, dodgeRoll) ==
  IF attacker.battleStats = Undefined \/ defender.battleStats = Undefined
    THEN [damage |-> 1, isDodged |-> FALSE, isCritical |-> FALSE, effectiveness |-> "normal"]
  ELSE
    LET attackerStats == attacker.battleStats
        defenderStats == defender.battleStats
        attackValue == IF attackType = "physical" THEN attackerStats.physicalAttack
                       ELSE attackerStats.magicalAttack
        defenseValue == IF attackType = "physical" THEN defenderStats.physicalDefense
                        ELSE defenderStats.magicalDefense
        eff == getEffectivenessMultiplier100(attackType, OrNoStats(attacker.stats),
                                             OrNoStats(defender.stats))
        isCritical == criticalRoll <= OrElse(attackerStats.criticalChance, 50)
        criticalMultiplier10 == IF isCritical THEN 15 ELSE 10
        isDodged == dodgeRoll <= OrElse(defenderStats.dodgeChance, 30)
        rawDamage100000 == attackValue * eff * variance100 * criticalMultiplier10
        finalDamage == Max(1, RoundDiv(rawDamage100000 - defenseValue * 100000, 100000))
    IN IF isDodged
         THEN [damage |-> 0, isDodged |-> TRUE, isCritical |-> FALSE,
               effectiveness |-> "normal"]
         ELSE [damage |-> finalDamage, isDodged |-> FALSE, isCritical |-> isCritical,
               effectiveness |-> getEffectivenessText(eff)]

\* -------------------------------------------------------------- battleCore
\* processAttack without the Math.max(0, ...) on the defender's health.
processAttack_unclamped(attacker, defender, attackType0, variance100, criticalRoll, dodgeRoll) ==
  LET damageResult == calculateDamage(attacker, defender, attackType0,
                                      variance100, criticalRoll, dodgeRoll)
  IN [updatedAttacker |-> attacker,
      updatedDefender |->
        IF damageResult.isDodged THEN defender
        ELSE [defender EXCEPT !.currentHealth = @ - damageResult.damage],
      attackType |-> attackType0,
      damageResult |-> damageResult]

processAttack(attacker, defender, attackType0, variance100, criticalRoll, dodgeRoll) ==
  IF attacker.battleStats = Undefined \/ defender.battleStats = Undefined
    THEN [updatedAttacker |-> attacker, updatedDefender |-> defender,
          attackType |-> attackType0,
          damageResult |-> [damage |-> 0, isDodged |-> FALSE, isCritical |-> FALSE,
                            effectiveness |-> "normal"]]
  ELSE
    LET attackType ==
          IF attackType0 = "auto"
            THEN IF attacker.battleStats.physicalAttack >= attacker.battleStats.magicalAttack
                   THEN "physical" ELSE "magical"
            ELSE attackType0
        damageResult == calculateDamage(attacker, defender, attackType,
                                        variance100, criticalRoll, dodgeRoll)
    IN [updatedAttacker |-> attacker,
        updatedDefender |->
          IF damageResult.isDodged THEN defender
          ELSE [defender EXCEPT
                  !.currentHealth = Max(0, defender.currentHealth - damageResult.damage)],
        attackType |-> attackType,
        damageResult |-> damageResult]

\* battleStats with the deltas of statChanges added, stat by stat.
AddStats(battleStats, statChanges) ==
  [k \in DOMAIN battleStats |->
     IF k \in DOMAIN statChanges THEN battleStats[k] + statChanges[k] ELSE battleStats[k]]

applyTool(creature, tool) ==
  IF creature.battleStats = Undefined
    THEN [updatedCreature |-> creature, toolEffect |-> Undefined, throws |-> FALSE]
  ELSE
    LET toolEffect == getToolEffect(tool)
        withStats == IF toolEffect.statChanges # Undefined
                       THEN [creature EXCEPT
                               !.battleStats = AddStats(@, toolEffect.statChanges)]
                       ELSE creature
        withEffect == IF toolEffect.duration > 0
                        THEN [withStats EXCEPT !.activeEffects = Append(@,
                                [name |-> "tool", duration |-> toolEffect.duration,
                                 statEffect |-> toolEffect.statChanges,
                                 healthEffect |-> toolEffect.healthChange])]
                        ELSE withStats
        healed == IF toolEffect.healthChange > 0
                    THEN [withEffect EXCEPT !.currentHealth =
                            Min(@ + toolEffect.healthChange, withEffect.battleStats.maxHealth)]
                    ELSE withEffect
    IN IF toolEffect.throws
         THEN [updatedCreature |-> creature, toolEffect |-> Undefined, throws |-> TRUE]
         ELSE [updatedCreature |-> healed, toolEffect |-> toolEffect, throws |-> FALSE]

applySpell(caster, target, spell) ==
  IF caster.stats = Undefined \/ target.battleStats = Undefined
    THEN [updatedCaster |-> caster, updatedTarget |-> target, spellEffect |-> Undefined]
  ELSE
    LET spellEffect == getSpellEffect(spell, caster.stats.magic)
        damaged == IF spellEffect.damage # 0
                     THEN [target EXCEPT !.currentHealth = Max(0, @ - spellEffect.damage)]
                     ELSE target
        healed == IF spellEffect.healing # 0
                    THEN [damaged EXCEPT !.currentHealth =
                            Min(@ + spellEffect.healing, damaged.battleStats.maxHealth)]
                    ELSE damaged
        withEffect == IF spellEffect.duration > 0
                        THEN [healed EXCEPT !.activeEffects = Append(@,
                                [name |-> "spell", duration |-> spellEffect.duration,
                                 statEffect |-> spellEffect.statChanges,
                                 healthEffect |-> spellEffect.healthOverTime])]
                        ELSE healed
    IN [updatedCaster |-> caster, updatedTarget |-> withEffect, spellEffect |-> spellEffect]

\* Math.round(n * 1.5) and Math.round(n * 0.5)
Round15(n) == RoundDiv(3 * n, 2)
Round05(n) == RoundDiv(n, 2)

defendCreature(creature) ==
  IF creature.battleStats = Undefined THEN creature
  ELSE
    LET boosted == [creature.battleStats EXCEPT
                      !.physicalDefense = Round15(@), !.magicalDefense = Round15(@)]
    IN [creature EXCEPT
          !.isDefending = TRUE,
          !.battleStats = boosted,
          !.activeEffects = Append(@,
             [name |-> "Defending", duration |-> 1,
              statEffect |-> [physicalDefense |-> Round05(boosted.physicalDefense),
                              magicalDefense |-> Round05(boosted.magicalDefense)],
              healthEffect |-> 0])]

\* One creature through the effects of the exported applyOngoingEffects, in
\* order: the stat deltas of the effect are added to battleStats again, and
\* the health effect is capped at maxHealth only.
RECURSIVE CoreTick(_, _)
CoreTick(creature, effects) ==
  IF effects = <<>> THEN creature
  ELSE LET e == Head(effects)
           withStats == IF e.statEffect # Undefined
                          THEN [creature EXCEPT !.battleStats = AddStats(@, e.statEffect)]
                          ELSE creature
           withHealth == IF e.healthEffect # 0
                           THEN [withStats EXCEPT !.currentHealth =
                                   Min(@ + e.healthEffect, withStats.battleStats.maxHealth)]
                           ELSE withStats
       IN CoreTick(withHealth, Tail(effects))

\* The exported applyOngoingEffects(creatures) of battleCore, which processTurn
\* uses; recalculateDerivedStats returns the battleStats it is given.
coreApplyOngoingEffects(creatures) ==
  [i \in 1..Len(creatures) |->
     LET creature == creatures[i]
     IN IF creature.battleStats = Undefined THEN creature
        ELSE [CoreTick(creature, creature.activeEffects) EXCEPT
                !.activeEffects =
                   SelectSeq([j \in 1..Len(creature.activeEffects) |->
                                [creature.activeEffects[j] EXCEPT !.duration = @ - 1]],
                             LAMBDA e : e.duration > 0)]]

\* getMaxHandSize of battleCore, which processTurn consults for the draw.
getMaxHandSize(d) ==
  CASE d = "easy" -> 5
    [] d = "medium" -> 4
    [] d = "hard" -> 3
    [] d = "expert" -> 3
    [] OTHER -> 5

\* -------------------------------------------------------------- difficulty
\* enemyRarity holds the weights in hundredths, in the order of the object's
\* keys: common, rare, epic, legendary.
getDifficultySettings(d) ==
  CASE d = "easy" -> [initialHandSize |-> 2, enemyDeckSize |-> 3, maxFieldSize |-> 3,
                      enemyRarity |-> <<70, 30, 0, 0>>]
    [] d = "hard" -> [initialHandSize |-> 3, enemyDeckSize |-> 5, maxFieldSize |-> 5,
                      enemyRarity |-> <<20, 40, 30, 10>>]
    [] d = "expert" -> [initialHandSize |-> 4, enemyDeckSize |-> 6, maxFieldSize |-> 6,
                        enemyRarity |-> <<0, 30, 50, 20>>]
    [] OTHER -> [initialHandSize |-> 3, enemyDeckSize |-> 4, maxFieldSize |-> 4,
                 enemyRarity |-> <<50, 30, 20, 0>>]

\* selectRarity: rnd is the Math.random() draw in hundredths (0 .. 99).  The
\* sums of the weights are exact in hundredths; in floating point every
\* table adds up to at least 1, so the fallback is never reached.
selectRarity(rarityDistribution, rnd) ==
  LET w == rarityDistribution
  IN IF rnd <= w[1] THEN "Common"
     ELSE IF rnd <= w[1] + w[2] THEN "Rare"
     ELSE IF rnd <= w[1] + w[2] + w[3] THEN "Epic"
     ELSE IF rnd <= w[1] + w[2] + w[3] + w[4] THEN "Legendary"
     ELSE "Common"

\* The max field size the AI uses (customDetermineAIAction).
aiMaxFieldSize(d) ==
  CASE d = "easy" -> 3
    [] d = "medium" -> 4
    [] d = "hard" -> 5
    [] d = "expert" -> 6
    [] OTHER -> 3

\* ------------------------------------------------ BattleGame: battle state
VARIABLES
  state,             \* the reducer state (useReducer)
  difficulty,        \* useState('easy')
  actionInProgress,  \* useState(false): the action lock
  timer,             \* the pending setTimeout callback
  closure,           \* the render the pending callback closes over
  logging,           \* whether battleLog is recorded in this specification
  call               \* a call of a resolver examined on its own: arguments and result

vars == <<state, difficulty, actionInProgress, timer, closure, logging, call>>

\* No resolver call is under examination.
NoCall == [op |-> "none"]

\* ------------------------------------------------------------ battleReducer
\* ADD_LOG putting the new entry in front of the log.
ADD_LOG_inFront(s, message) ==
  IF logging
    THEN [s EXCEPT !.battleLog = <<[turn |-> s.turn, message |-> message]>> \o @]
    ELSE s

ADD_LOG(s, message) ==
  IF logging
    THEN [s EXCEPT !.battleLog = Append(@, [turn |-> s.turn, message |-> message])]
    ELSE s

RECURSIVE AddLogs(_, _)
AddLogs(s, messages) ==
  IF messages = <<>> THEN s ELSE AddLogs(ADD_LOG(s, Head(messages)), Tail(messages))

START_BATTLE(s, a) ==
  [s EXCEPT !.gameState = "battle",
            !.playerDeck = a.playerDeck, !.playerHand = a.playerHand, !.playerField = <<>>,
            !.enemyDeck = a.enemyDeck, !.enemyHand = a.enemyHand, !.enemyField = <<>>,
            !.playerEnergy = 10, !.enemyEnergy = 10,
            !.turn = 1, !.activePlayer = "player",
            !.battleLog = IF logging THEN <<[turn |-> 1, message |-> "Battle started"]>>
                          ELSE <<>>,
            !.playerTools = a.playerTools, !.playerSpells = a.playerSpells]

\* action.energyCost || action.creature.battleStats.energyCost || 3
DeployCost(creature, energyCost) ==
  OrElse(OrElse(energyCost, creature.battleStats.energyCost), 3)

DEPLOY_CREATURE(s, creature, energyCost) ==
  [s EXCEPT !.playerHand = SelectSeq(@, LAMBDA c : c.id # creature.id),
            !.playerField = Append(@, creature),
            !.playerEnergy = @ - DeployCost(creature, energyCost)]

ENEMY_DEPLOY_CREATURE(s, creature, energyCost) ==
  [s EXCEPT !.enemyHand = SelectSeq(@, LAMBDA c : c.id # creature.id),
            !.enemyField = Append(@, creature),
            !.enemyEnergy = @ - DeployCost(creature, energyCost)]

ATTACK(s, attackResult) ==
  LET a == attackResult.updatedAttacker
      d == attackResult.updatedDefender
      isPlayerAttacker == HasId(s.playerField, a.id)
      isPlayerDefender == HasId(s.playerField, d.id)
  IN [s EXCEPT
        !.playerField = ReplacedBoth(@, isPlayerAttacker, a, isPlayerDefender, d),
        !.enemyField = ReplacedBoth(@, ~isPlayerAttacker, a, ~isPlayerDefender, d)]

USE_TOOL(s, result, tool) ==
  LET u == result.updatedCreature
      isPlayerToolTarget == HasId(s.playerField, u.id)
  IN [s EXCEPT
        !.playerField = IF isPlayerToolTarget
                          THEN Replaced(@, u) ELSE @,
        !.enemyField = IF ~isPlayerToolTarget
                         THEN Replaced(@, u) ELSE @,
        !.playerTools = SelectSeq(@, LAMBDA t : t.id # tool.id)]

USE_SPELL(s, spellResult, spell, energyCost) ==
  LET uc == spellResult.updatedCaster
      ut == spellResult.updatedTarget
      isPlayerCaster == HasId(s.playerField, uc.id)
      isPlayerTarget == HasId(s.playerField, ut.id)
  IN [s EXCEPT
        !.playerField = ReplacedBoth(@, isPlayerCaster, uc, isPlayerTarget, ut),
        !.enemyField = ReplacedBoth(@, ~isPlayerCaster, uc, ~isPlayerTarget, ut),
        !.playerEnergy = @ - OrElse(energyCost, 4),
        !.playerSpells = SelectSeq(@, LAMBDA x : x.id # spell.id)]

DEFEND(s, updatedCreature) ==
  LET u == updatedCreature
      isPlayerDefending == HasId(s.playerField, u.id)
  IN [s EXCEPT
        !.playerField = IF isPlayerDefending
                          THEN Replaced(@, u) ELSE @,
        !.enemyField = IF ~isPlayerDefending
                         THEN Replaced(@, u) ELSE @]

DRAW_CARD(s, player) ==
  IF player = "player"
    THEN IF s.playerDeck = <<>> THEN s
         ELSE [s EXCEPT !.playerHand = Append(@, Head(s.playerDeck)),
                        !.playerDeck = Tail(@)]
    ELSE IF s.enemyDeck = <<>> THEN s
         ELSE [s EXCEPT !.enemyHand = Append(@, Head(s.enemyDeck)),
                        !.enemyDeck = Tail(@)]

\* REGENERATE_ENERGY without the cap of 15.
REGENERATE_ENERGY_uncapped(s, playerRegen, enemyRegen) ==
  [s EXCEPT !.playerEnergy = @ + playerRegen, !.enemyEnergy = @ + enemyRegen]

REGENERATE_ENERGY(s, playerRegen, enemyRegen) ==
  [s EXCEPT !.playerEnergy = Min(15, @ + playerRegen),
            !.enemyEnergy = Min(15, @ + enemyRegen)]

SET_ACTIVE_PLAYER(s, player) == [s EXCEPT !.activePlayer = player]

\* INCREMENT_TURN counting the turn twice.
INCREMENT_TURN_twice(s) == [s EXCEPT !.turn = @ + 2]

INCREMENT_TURN(s) == [s EXCEPT !.turn = @ + 1]

SET_GAME_STATE(s, gs) == [s EXCEPT !.gameState = gs]

APPLY_ONGOING_EFFECTS(s, updatedPlayerField, updatedEnemyField) ==
  [s EXCEPT !.playerField = updatedPlayerField, !.enemyField = updatedEnemyField]

\* --------------------------------------------- BattleGame: battle mechanics
\* currentHealth after the health effects of `effects`, applied in order.
RECURSIVE TickHealth(_, _, _)
TickHealth(health, maxHealth, effects) ==
  IF effects = <<>> THEN health
  ELSE LET e == Head(effects)
           h == IF e.healthEffect # 0
                  THEN Min(maxHealth, Max(0, health + e.healthEffect))
                  ELSE health
       IN TickHealth(h, maxHealth, Tail(effects))

\* The tick keeping the effects whose duration has reached 0.
RemainingEffects_keepsExpired(effects) ==
  SelectSeq([i \in 1..Len(effects) |-> [effects[i] EXCEPT !.duration = @ - 1]],
            LAMBDA e : e.duration >= 0)

\* The effects that remain after one tick, each with its duration decremented.
RemainingEffects(effects) ==
  SelectSeq([i \in 1..Len(effects) |-> [effects[i] EXCEPT !.duration = @ - 1]],
            LAMBDA e : e.duration > 0)

\* One creature through one tick of the state machine's applyOngoingEffects.
TickCreature(creature) ==
  LET ticked == IF creature.activeEffects # <<>>
                  THEN [creature EXCEPT
                          !.currentHealth =
                             TickHealth(@, creature.battleStats.maxHealth,
                                        creature.activeEffects),
                          !.activeEffects = RemainingEffects(@)]
                  ELSE creature
  IN [ticked EXCEPT !.isDefending = FALSE]

\* The log lines of one creature's tick.
TickLog(creature) ==
  LET effects == creature.activeEffects
      withHealth == SelectSeq(effects, LAMBDA e : e.healthEffect # 0)
      wornOff == SelectSeq(effects, LAMBDA e : e.duration - 1 <= 0)
      health == [i \in 1..Len(withHealth) |->
                   IF withHealth[i].healthEffect > 0 THEN "healed" ELSE "took damage"]
      expired == [i \in 1..Len(wornOff) |-> "worn off"]
  IN health \o expired \o (IF creature.isDefending THEN <<"no longer defending">> ELSE <<>>)

RECURSIVE FieldTickLog(_)
FieldTickLog(field) ==
  IF field = <<>> THEN <<>> ELSE TickLog(Head(field)) \o FieldTickLog(Tail(field))

\* The filter dropping every creature with 10 health or less.
Alive_aboveTen(field) == SelectSeq(field, LAMBDA c : c.currentHealth > 10)

Alive(field) == SelectSeq(field, LAMBDA c : c.currentHealth > 0)

\* applyOngoingEffects() of the render whose state is r, dispatched on s.
applyOngoingEffects(s, r) ==
  LET updatedPlayerField == [i \in 1..Len(r.playerField) |-> TickCreature(r.playerField[i])]
      updatedEnemyField == [i \in 1..Len(r.enemyField) |-> TickCreature(r.enemyField[i])]
      alivePlayerCreatures == Alive(updatedPlayerField)
      aliveEnemyCreatures == Alive(updatedEnemyField)
      logs == FieldTickLog(r.playerField) \o FieldTickLog(r.enemyField)
              \o (IF Len(alivePlayerCreatures) < Len(updatedPlayerField)
                    THEN <<"your creatures were defeated">> ELSE <<>>)
              \o (IF Len(aliveEnemyCreatures) < Len(updatedEnemyField)
                    THEN <<"enemy creatures were defeated">> ELSE <<>>)
  IN APPLY_ONGOING_EFFECTS(AddLogs(s, logs), alivePlayerCreatures, aliveEnemyCreatures)

\* Sum over the field of Math.floor(creature.stats.energy * 0.2).
RECURSIVE EnergyBonus(_)
EnergyBonus(field) ==
  IF field = <<>> THEN 0
  ELSE (IF Head(field).stats # Undefined /\ Head(field).stats.energy # 0
          THEN FloorDiv(Head(field).stats.energy, 5) ELSE 0)
       + EnergyBonus(Tail(field))

BASE_REGEN == 4

\* regenerateEnergy() of the render whose state is r, dispatched on s.
regenerateEnergy(s, r) ==
  LET playerRegen == BASE_REGEN + EnergyBonus(r.playerField)
      enemyRegen == BASE_REGEN + EnergyBonus(r.enemyField)
  IN ADD_LOG(REGENERATE_ENERGY(s, playerRegen, enemyRegen),
             IF r.activePlayer = "player" THEN "You gained energy"
             ELSE "Enemy gained energy")

\* checkWinCondition looking at the field only.
checkWinCondition_fieldOnly(r) == r.enemyField = <<>>

checkWinCondition(r) == r.enemyField = <<>> /\ r.enemyHand = <<>> /\ r.enemyDeck = <<>>

checkLossCondition(r) == r.playerField = <<>> /\ r.playerHand = <<>> /\ r.playerDeck = <<>>

\* The win/loss check without its loss branch.
winLossEffect_winOnly(s) ==
  IF s.gameState # "battle" THEN s
  ELSE IF checkWinCondition(s) THEN ADD_LOG(SET_GAME_STATE(s, "victory"), "Victory!")
  ELSE s

\* The useEffect that runs after a render: the win/loss check on the state
\* that was rendered.
winLossEffect(s) ==
  IF s.gameState # "battle" THEN s
  ELSE IF checkWinCondition(s) THEN ADD_LOG(SET_GAME_STATE(s, "victory"), "Victory!")
  ELSE IF checkLossCondition(s) THEN ADD_LOG(SET_GAME_STATE(s, "defeat"), "Defeat!")
  ELSE s

\* --------------------------------------------- BattleGame: player actions
\* Each takes the state s the dispatches act on and the render r of the
\* handler (s = r when the handler runs in the render that created it).
MaxPlayerFieldSize == 3
SpellEnergyCost == 4

\* deployCreature without the check of the field size.
deployCreature_anyField(s, r, creature) ==
  LET energyCost == OrElse(creature.battleStats.energyCost, 3)
  IN IF r.playerEnergy < energyCost
       THEN ADD_LOG(s, "Not enough energy")
       ELSE ADD_LOG(DEPLOY_CREATURE(s, creature, energyCost), "You deployed")

deployCreature(s, r, creature) ==
  IF Len(r.playerField) >= MaxPlayerFieldSize
    THEN ADD_LOG(s, "Your battlefield is full!")
  ELSE LET energyCost == OrElse(creature.battleStats.energyCost, 3)
       IN IF r.playerEnergy < energyCost
            THEN ADD_LOG(s, "Not enough energy to deploy")
            ELSE ADD_LOG(DEPLOY_CREATURE(s, creature, energyCost), "You deployed")

\* attackCreature throws when the attacker has no battleStats.
attackCreatureThrows(attacker) == attacker.battleStats = Undefined

attackCreatureType(attacker) ==
  IF attacker.battleStats.physicalAttack > attacker.battleStats.magicalAttack
    THEN "physical" ELSE "magical"

attackCreature(s, attacker, defender, draws) ==
  LET attackResult == processAttack(attacker, defender, attackCreatureType(attacker),
                                    draws.variance100, draws.criticalRoll, draws.dodgeRoll)
  IN ADD_LOG(ATTACK(s, attackResult), "attack")

useToolThrows(tool, targetCreature) == applyTool(targetCreature, tool).throws

useTool(s, tool, targetCreature) ==
  ADD_LOG(USE_TOOL(s, applyTool(targetCreature, tool), tool), "tool was used")

\* useSpell without the check of the energy.
useSpell_unchecked(s, r, spell, caster, target) ==
  LET spellResult == applySpell(caster, IF target = Undefined THEN caster ELSE target, spell)
  IN ADD_LOG(USE_SPELL(s, spellResult, spell, SpellEnergyCost), "cast")

\* target is Undefined when no target is selected: the caster is the target.
useSpell(s, r, spell, caster, target) ==
  IF r.playerEnergy < SpellEnergyCost
    THEN ADD_LOG(s, "Not enough energy to cast")
  ELSE LET spellResult == applySpell(caster, IF target = Undefined THEN caster ELSE target,
                                     spell)
       IN ADD_LOG(USE_SPELL(s, spellResult, spell, SpellEnergyCost), "cast")

defendCreatureAction(s, creature) ==
  ADD_LOG(DEFEND(s, defendCreature(creature)), "took a defensive stance")

\* ------------------------------------------------------ BattleGame: enemy AI
\* The AI functions return the set of actions the Math.random() draws allow.
\* An action is [type, creature, target, energyCost]; creature is the creature
\* to deploy, the attacker or the defender.
EndTurnAction ==
  [type |-> "endTurn", creature |-> Undefined, target |-> Undefined, energyCost |-> 0]

DeployAction(c, cost) ==
  [type |-> "deploy", creature |-> c, target |-> Undefined, energyCost |-> cost]

AttackAction(a, t) ==
  [type |-> "attack", creature |-> a, target |-> t, energyCost |-> 0]

DefendAction(c) ==
  [type |-> "defend", creature |-> c, target |-> Undefined, energyCost |-> 0]

\* creature.battleStats?.energyCost || 3
AICost(creature) ==
  IF creature.battleStats = Undefined THEN 3 ELSE OrElse(creature.battleStats.energyCost, 3)

Affordable(enemyHand, enemyEnergy) ==
  SelectSeq(enemyHand, LAMBDA c : AICost(c) <= enemyEnergy)

\* determineEasyAIAction deploying any card of the hand, affordable or not.
determineEasyAIAction_anyCard(enemyHand, enemyField, playerField, enemyEnergy, maxFieldSize) ==
  IF Len(enemyField) < maxFieldSize /\ enemyHand # <<>>
    THEN {DeployAction(c, AICost(c)) : c \in Range(enemyHand)}
  ELSE IF enemyField # <<>> /\ playerField # <<>>
    THEN UNION {
           {AttackAction(a, t) : t \in Range(playerField)}
             \cup (IF ~a.isDefending THEN {DefendAction(a)} ELSE {})
           : a \in Range(enemyField)}
  ELSE {EndTurnAction}

determineEasyAIAction(enemyHand, enemyField, playerField, enemyEnergy, maxFieldSize) ==
  LET affordableCreatures == Affordable(enemyHand, enemyEnergy)
  IN IF Len(enemyField) < maxFieldSize /\ enemyHand # <<>> /\ affordableCreatures # <<>>
       THEN {DeployAction(c, AICost(c)) : c \in Range(affordableCreatures)}
     ELSE IF enemyField # <<>> /\ playerField # <<>>
       THEN UNION {
              {AttackAction(a, t) : t \in Range(playerField)}
                \cup (IF ~a.isDefending THEN {DefendAction(a)} ELSE {})
              : a \in Range(enemyField)}
     ELSE IF enemyField # <<>> /\ playerField = <<>>
       THEN {DefendAction(c) : c \in {x \in Range(enemyField) : ~x.isDefending}}
            \cup (IF \E x \in Range(enemyField) : x.isDefending
                    THEN {EndTurnAction} ELSE {})
     ELSE {EndTurnAction}

\* Object.values(creature.stats).reduce((sum, val) => sum + val, 0)
StatTotal(creature) ==
  IF creature.stats = Undefined THEN 0
  ELSE creature.stats.energy + creature.stats.strength + creature.stats.magic
       + creature.stats.stamina + creature.stats.speed

\* seq.reduce((best, current) => ..., null) keeping the first element that is
\* valid and not beaten by a later one: the index of the earliest valid
\* element whose key no valid element exceeds; 0 for null.  keys[i] is the
\* key of seq[i] and valid[i] tells whether the reduce considers it.
BestIndex(valid, keys) ==
  IF \E i \in 1..Len(keys) : valid[i]
    THEN CHOOSE i \in 1..Len(keys) :
           /\ valid[i]
           /\ \A j \in 1..Len(keys) : valid[j] => keys[j] <= keys[i]
           /\ \A j \in 1..(i - 1) : valid[j] => keys[j] < keys[i]
    ELSE 0

AttackStat(c) == Max(c.battleStats.physicalAttack, c.battleStats.magicalAttack)

\* The creature with the highest total of base stats among those with stats.
BestTotalIndex(creatures) ==
  BestIndex([i \in 1..Len(creatures) |-> creatures[i].stats # Undefined],
            [i \in 1..Len(creatures) |-> StatTotal(creatures[i])])

\* The creature with the highest attack among those with battleStats.
BestAttackerIndex(field) ==
  BestIndex([i \in 1..Len(field) |-> field[i].battleStats # Undefined],
            [i \in 1..Len(field) |->
               IF field[i].battleStats # Undefined THEN AttackStat(field[i]) ELSE 0])

\* The creature with the lowest currentHealth, earliest on a tie.
WeakestIndex(field) ==
  BestIndex([i \in 1..Len(field) |-> TRUE],
            [i \in 1..Len(field) |-> 0 - field[i].currentHealth])

\* The index of the creature with the lowest currentHealth / maxHealth among
\* those with battleStats that are not defending (earliest on a tie); 0 if none.
LowestHealthIndex(field) ==
  LET Valid(c) == c.battleStats # Undefined /\ ~c.isDefending
  IN IF \E i \in 1..Len(field) : Valid(field[i])
       THEN CHOOSE i \in 1..Len(field) :
              /\ Valid(field[i])
              /\ \A j \in 1..Len(field) : Valid(field[j]) =>
                    field[i].currentHealth * field[j].battleStats.maxHealth
                      <= field[j].currentHealth * field[i].battleStats.maxHealth
              /\ \A j \in 1..(i - 1) : Valid(field[j]) =>
                    field[i].currentHealth * field[j].battleStats.maxHealth
                      < field[j].currentHealth * field[i].battleStats.maxHealth
       ELSE 0

determineMediumAIAction(enemyHand, enemyField, playerField, enemyEnergy, maxFieldSize) ==
  LET affordableCreatures == Affordable(enemyHand, enemyEnergy)
      best == BestTotalIndex(affordableCreatures)
      attackerIx == BestAttackerIndex(enemyField)
      \* the lowest currentHealth, earliest on a tie
      weakestIx == WeakestIndex(playerField)
      lowestIx == LowestHealthIndex(enemyField)
      defendLow ==
        IF enemyField # <<>> /\ lowestIx # 0
             /\ 2 * enemyField[lowestIx].currentHealth
                  < enemyField[lowestIx].battleStats.maxHealth
          THEN {DefendAction(enemyField[lowestIx])} ELSE {EndTurnAction}
      lastResort ==
        IF enemyField # <<>>
          THEN IF playerField = <<>> THEN defendLow ELSE defendLow \cup {EndTurnAction}
          ELSE {EndTurnAction}
  IN IF Len(enemyField) < maxFieldSize /\ enemyHand # <<>>
          /\ affordableCreatures # <<>> /\ best # 0
       THEN {DeployAction(affordableCreatures[best], AICost(affordableCreatures[best]))}
     ELSE IF enemyField # <<>> /\ playerField # <<>> /\ attackerIx # 0
       THEN LET bestAttacker == enemyField[attackerIx]
            IN {AttackAction(bestAttacker, playerField[weakestIx])}
               \cup (IF ~bestAttacker.isDefending
                          /\ 10 * bestAttacker.currentHealth
                               < 3 * bestAttacker.battleStats.maxHealth
                       THEN {DefendAction(bestAttacker)} ELSE {})
     ELSE lastResort

\* customDetermineAIAction without its safeguard.
customDetermineAIAction_noSafeguard(d, enemyHand, enemyField, playerField, enemyEnergy) ==
  IF d = "medium"
    THEN determineMediumAIAction(enemyHand, enemyField, playerField, enemyEnergy,
                                 aiMaxFieldSize(d))
    ELSE determineEasyAIAction(enemyHand, enemyField, playerField, enemyEnergy,
                               aiMaxFieldSize(d))

customDetermineAIAction(d, enemyHand, enemyField, playerField, enemyEnergy) ==
  LET maxFieldSize == aiMaxFieldSize(d)
  IN IF Len(enemyField) >= maxFieldSize \/ enemyEnergy <= 0
          \/ (enemyHand = <<>> /\ enemyField = <<>>)
       THEN {EndTurnAction}
     ELSE IF d = "medium"
       THEN determineMediumAIAction(enemyHand, enemyField, playerField, enemyEnergy,
                                    maxFieldSize)
       ELSE determineEasyAIAction(enemyHand, enemyField, playerField, enemyEnergy,
                                  maxFieldSize)

\* ------------------------------------------------------ battle set-up inputs
\* A creature record as the collaborators supply it.  stats is Undefined for a
\* record without base attributes.
Nft(id, stats, rarity, form) ==
  [id |-> id, stats |-> stats, rarity |-> rarity, form |-> form, combination_level |-> 0]

Attrs(energy, strength, magic, stamina, speed) ==
  [energy |-> energy, strength |-> strength, magic |-> magic,
   stamina |-> stamina, speed |-> speed]

\* The battle-ready version of a creature (initializeBattle).
BattleReady(creature, battleStats) ==
  [id |-> creature.id, stats |-> creature.stats, rarity |-> creature.rarity,
   form |-> creature.form, combination_level |-> creature.combination_level,
   battleStats |-> battleStats, currentHealth |-> battleStats.maxHealth,
   activeEffects |-> <<>>, isDefending |-> FALSE]

PlayerBattleCreature(creature) == BattleReady(creature, calculateDerivedStats(creature))

\* The energy cost initializeBattle assigns to the enemy creature at `index`
\* (0-based).
EnemyEnergyCost(creature, index) ==
  IF index = 0 THEN 3
  ELSE Min(9, 3 + creature.form
              + (CASE creature.rarity = "Rare" -> 1
                   [] creature.rarity = "Epic" -> 2
                   [] creature.rarity = "Legendary" -> 3
                   [] OTHER -> 0))

EnemyBattleCreature(creature, index) ==
  BattleReady(creature,
    [calculateDerivedStats(creature) EXCEPT !.energyCost = EnemyEnergyCost(creature, index)])

\* array.slice(from) and array.slice(0, n)
Drop(seq, n) == SubSeq(seq, Min(n, Len(seq)) + 1, Len(seq))
Take(seq, n) == SubSeq(seq, 1, Min(n, Len(seq)))

PlayerInitialHandSize == 3
PlayerMaxHandSize == 5

\* The player's creatures.
N1 == Nft(1, Attrs(30, 0, 10, 0, 0), "Common", 0)
N2 == Nft(2, Attrs(10, 10, 0, 0, 0), "Common", 0)
N3 == Nft(3, Undefined, "Common", 0)
N4 == Nft(4, Attrs(40, 0, 0, 0, 0), "Rare", 0)

\* Tool and spell inventories (toolNfts, spellNfts).
HealTool == [id |-> 1, tool_type |-> "stamina", tool_effect |-> "Default"]
ShieldTool == [id |-> 2, tool_type |-> "strength", tool_effect |-> "Shield"]
BrokenTool == [id |-> 3, tool_type |-> "unknown", tool_effect |-> "Surge"]

DrainSpell == [id |-> 1, spell_type |-> "magic", spell_effect |-> "Drain"]
PoisonSpell == [id |-> 2, spell_type |-> "strength", spell_effect |-> "Echo"]
MendSpell == [id |-> 3, spell_type |-> "stamina", spell_effect |-> "Default"]

\* What the collaborators supply at battle set-up: the creature collection
\* (never empty), the tools and the spells.
Supply(creatureNfts, toolNfts, spellNfts) ==
  [creatureNfts |-> creatureNfts, toolNfts |-> toolNfts, spellNfts |-> spellNfts]

SmallSupplies ==
  {Supply(<<N1>>, <<HealTool>>, <<DrainSpell, PoisonSpell>>),
   Supply(<<N2, N3>>, <<ShieldTool, BrokenTool>>, <<MendSpell>>)}

LargeSupply == Supply(<<N3, N1, N2, N4>>, <<>>, <<>>)

\* The rosters generateEnemyCreatures returns: enemyDeckSize creatures whose
\* attributes are round((base + form + jitter) * multiplier).
G1 == Nft(11, Attrs(4, 4, 4, 4, 4), "Common", 0)
G2 == Nft(12, Attrs(6, 5, 6, 5, 6), "Rare", 1)
G3 == Nft(13, Attrs(3, 4, 5, 4, 3), "Common", 0)
G4 == Nft(14, Attrs(7, 7, 6, 8, 7), "Common", 2)

Difficulties == {"easy", "medium"}

\* The battles that are set up: a difficulty and what the collaborators supply.
Setups == (Difficulties \X SmallSupplies) \cup {<<"easy", LargeSupply>>}

EnemyRosters(d) ==
  IF d = "easy" THEN {<<G1, G2, G3>>}
  ELSE {<<G2, G4, G1, G3>>}

\* ------------------------------------------------------------------- Init
InitialState ==
  [gameState |-> "setup", turn |-> 1, activePlayer |-> "player",
   playerDeck |-> <<>>, playerHand |-> <<>>, playerField |-> <<>>, playerEnergy |-> 10,
   playerTools |-> <<>>, playerSpells |-> <<>>,
   enemyDeck |-> <<>>, enemyHand |-> <<>>, enemyField |-> <<>>, enemyEnergy |-> 10,
   battleLog |-> <<>>]

\* The value of `closure` while no callback is pending.
NoClosure == [state |-> InitialState, difficulty |-> "easy"]

Init ==
  /\ state = InitialState
  /\ difficulty = "easy"
  /\ actionInProgress = FALSE
  /\ timer = "none"
  /\ closure = NoClosure
  /\ logging = FALSE
  /\ call = NoCall

LogRoom == Len(state.battleLog) <= MaxLog

\* initializeBattle, after the difficulty was selected (setDifficulty).
StartBattle ==
  /\ state.gameState = "setup"
  /\ \E setup \in Setups :
       \E enemyCreatures \in EnemyRosters(setup[1]) :
         LET d == setup[1]
             supply == setup[2]
             battleCreatures == [i \in 1..Len(supply.creatureNfts) |->
                                  PlayerBattleCreature(supply.creatureNfts[i])]
             diffSettings == getDifficultySettings(d)
             enemyWithStats == [i \in 1..Len(enemyCreatures) |->
                                  EnemyBattleCreature(enemyCreatures[i], i - 1)]
             started == START_BATTLE(state,
                [playerDeck |-> Drop(battleCreatures, PlayerInitialHandSize),
                 playerHand |-> Take(battleCreatures, PlayerInitialHandSize),
                 playerTools |-> supply.toolNfts, playerSpells |-> supply.spellNfts,
                 enemyDeck |-> Drop(enemyWithStats, diffSettings.initialHandSize),
                 enemyHand |-> Take(enemyWithStats, diffSettings.initialHandSize)])
         IN /\ difficulty' = d
            /\ state' = winLossEffect(ADD_LOG(started, "Your turn"))
  /\ UNCHANGED <<actionInProgress, timer, closure, logging, call>>
  /\ LogRoom'

\* -------------------------------------------------------- handlePlayerAction
\* The Math.random() draws of one attack: the damage variance (0.9 to 1.1, in
\* hundredths) and the critical and dodge rolls (0 to 100, in thousandths).
Draw(variance100, criticalRoll, dodgeRoll) ==
  [variance100 |-> variance100, criticalRoll |-> criticalRoll, dodgeRoll |-> dodgeRoll]
\* a plain hit, a weak hit, a critical hit and a dodged attack
Draws == {Draw(100, 999, 999), Draw(90, 999, 999), Draw(110, 0, 999), Draw(100, 999, 0)}
NoDraws == Draw(100, 999, 999)

\* The intents the action panel can issue for the rendered state s: the
\* selected creature is a card of the hand or a creature of the player's
\* field, the target a creature of the enemy field (getAvailableActions).
\* End Turn is offered only while a creature is selected.
Intent(type, source, target, item, draws) ==
  [type |-> type, source |-> source, target |-> target, item |-> item, draws |-> draws]

PlayerIntents(s) ==
  {Intent("deploy", c, Undefined, Undefined, NoDraws) : c \in Range(s.playerHand)}
  \cup {Intent("attack", c, t, Undefined, draws) :
          c \in Range(s.playerField), t \in Range(s.enemyField), draws \in Draws}
  \cup {Intent("useTool", c, Undefined, tool, NoDraws) :
          c \in Range(s.playerField), tool \in Range(s.playerTools)}
  \cup {Intent("useSpell", c, t, spell, NoDraws) :
          c \in Range(s.playerField), t \in Range(s.enemyField) \cup {Undefined},
          spell \in Range(s.playerSpells)}
  \cup {Intent("defend", c, Undefined, Undefined, NoDraws) :
          c \in {x \in Range(s.playerField) : Len(x.activeEffects) < MaxEffects}}
  \cup {Intent("endTurn", Undefined, Undefined, Undefined, NoDraws) :
          c \in {x \in Range(s.playerHand) \cup Range(s.playerField) : s.turn <= MaxTurn}}

\* What a handler leaves behind: the dispatched state, the lock, the pending
\* callback and the render it closes over.
Outcome(s, lock, t, c) == [state |-> s, lock |-> lock, timer |-> t, closure |-> c]

\* The lock is set and released by a 300 ms callback.
Locked(s) == Outcome(s, TRUE, "unlock", NoClosure)

\* The handler threw after setActionInProgress(true): nothing is dispatched
\* and no callback is scheduled.
Thrown(s) == Outcome(s, TRUE, "none", NoClosure)

endTurn(s, d) ==
  IF checkWinCondition(s)
    THEN Outcome(ADD_LOG(SET_GAME_STATE(s, "victory"), "Victory!"), FALSE, "none", NoClosure)
  ELSE IF checkLossCondition(s)
    THEN Outcome(ADD_LOG(SET_GAME_STATE(s, "defeat"), "Defeat!"), FALSE, "none", NoClosure)
  ELSE Outcome(ADD_LOG(SET_ACTIVE_PLAYER(applyOngoingEffects(s, s), "enemy"),
                       "Enemy's turn"),
               TRUE, "enemyTurn", [state |-> s, difficulty |-> d])

PlayerOutcome(s, d, intent) ==
  CASE intent.type = "deploy" -> Locked(deployCreature(s, s, intent.source))
    [] intent.type = "attack" ->
         IF attackCreatureThrows(intent.source) THEN Thrown(s)
         ELSE Locked(attackCreature(s, intent.source, intent.target, intent.draws))
    [] intent.type = "useTool" ->
         IF useToolThrows(intent.item, intent.source) THEN Thrown(s)
         ELSE Locked(useTool(s, intent.item, intent.source))
    [] intent.type = "useSpell" ->
         Locked(useSpell(s, s, intent.item, intent.source, intent.target))
    [] intent.type = "defend" -> Locked(defendCreatureAction(s, intent.source))
    [] OTHER -> endTurn(s, d)

\* The guard without the lock.
intentAccepted_unlocked(lock, s) == s.activePlayer = "player" /\ s.gameState = "battle"

\* The guard of handlePlayerAction: an intent is processed only if this holds.
intentAccepted(lock, s) == ~lock /\ s.activePlayer = "player" /\ s.gameState = "battle"

handlePlayerAction ==
  /\ intentAccepted(actionInProgress, state)
  /\ \E intent \in PlayerIntents(state) :
       LET out == PlayerOutcome(state, difficulty, intent)
       IN /\ state' = winLossEffect(out.state)
          /\ actionInProgress' = out.lock
          /\ timer' = out.timer
          /\ closure' = out.closure
  /\ UNCHANGED <<difficulty, logging, call>>
  /\ LogRoom'

\* The 300 ms callback of an action: setActionInProgress(false).
UnlockTimer ==
  /\ timer = "unlock"
  /\ actionInProgress' = FALSE
  /\ timer' = "none"
  /\ UNCHANGED <<state, difficulty, closure, logging, call>>

\* ------------------------------------------------------------ the enemy turn
\* handleEnemyTurn of the render r: the AI decides on r and the result is
\* dispatched on s.  threw is TRUE when the handler raised instead.
handleEnemyTurn(s, r, aiAction, draws) ==
  CASE aiAction.type = "deploy" ->
         LET energyCost == OrElse(aiAction.energyCost, AICost(aiAction.creature))
         IN IF r.enemyEnergy < energyCost
              THEN [state |-> ADD_LOG(s, "Enemy doesn't have enough energy"),
                    threw |-> FALSE]
              ELSE [state |-> ADD_LOG(ENEMY_DEPLOY_CREATURE(s, aiAction.creature, energyCost),
                                      "Enemy deployed"),
                    threw |-> FALSE]
    [] aiAction.type = "attack" ->
         IF attackCreatureThrows(aiAction.creature)
           THEN [state |-> s, threw |-> TRUE]
           ELSE [state |-> attackCreature(s, aiAction.creature, aiAction.target, draws),
                 threw |-> FALSE]
    [] aiAction.type = "defend" ->
         [state |-> defendCreatureAction(s, aiAction.creature), threw |-> FALSE]
    [] OTHER -> [state |-> ADD_LOG(s, "Enemy ended their turn"), threw |-> FALSE]

\* The 750 ms callback of EndTurn: processEnemyTurn up to its setTimeout.
EnemyTurnTimer ==
  /\ timer = "enemyTurn"
  /\ LET r == closure.state
     IN IF r.gameState = "battle"
          THEN \E aiAction \in customDetermineAIAction(closure.difficulty, r.enemyHand,
                                  r.enemyField, r.playerField, r.enemyEnergy) :
                 \E draws \in IF aiAction.type = "attack" THEN Draws ELSE {NoDraws} :
                   LET out == handleEnemyTurn(state, r, aiAction, draws)
                   IN /\ state' = winLossEffect(out.state)
                      /\ timer' = IF out.threw THEN "none" ELSE "finishTurn"
                      /\ closure' = IF out.threw THEN NoClosure ELSE closure
                      /\ UNCHANGED actionInProgress
          ELSE /\ actionInProgress' = FALSE
               /\ timer' = "none"
               /\ closure' = NoClosure
               /\ UNCHANGED state
  /\ UNCHANGED <<difficulty, logging, call>>
  /\ LogRoom'

\* The dispatches of the 0 ms callback when the battle goes on, in the order
\* the callback issues them; the conditions are read from the render r.
Dispatch(type, arg) == [type |-> type, arg |-> arg]

finishTurnDispatches(r, d) ==
  <<Dispatch("APPLY_ONGOING_EFFECTS", Undefined),
    Dispatch("INCREMENT_TURN", Undefined),
    Dispatch("SET_ACTIVE_PLAYER", "player")>>
  \o (IF Len(r.playerHand) < PlayerMaxHandSize /\ r.playerDeck # <<>>
        THEN <<Dispatch("DRAW_CARD", "player"), Dispatch("ADD_LOG", "You drew")>>
        ELSE <<>>)
  \o (IF Len(r.enemyHand) < getDifficultySettings(d).initialHandSize /\ r.enemyDeck # <<>>
        THEN <<Dispatch("DRAW_CARD", "enemy"), Dispatch("ADD_LOG", "Enemy drew a card")>>
        ELSE <<>>)
  \o <<Dispatch("REGENERATE_ENERGY", Undefined), Dispatch("ADD_LOG", "Your turn")>>

\* The reducer state after one of these dispatches.
Dispatched(s, r, a) ==
  CASE a.type = "APPLY_ONGOING_EFFECTS" -> applyOngoingEffects(s, r)
    [] a.type = "INCREMENT_TURN" -> INCREMENT_TURN(s)
    [] a.type = "SET_ACTIVE_PLAYER" -> SET_ACTIVE_PLAYER(s, a.arg)
    [] a.type = "DRAW_CARD" -> DRAW_CARD(s, a.arg)
    [] a.type = "REGENERATE_ENERGY" -> regenerateEnergy(s, r)
    [] OTHER -> ADD_LOG(s, a.arg)

\* The reducer states the dispatches go through: s first, then the state
\* after each dispatch.
RECURSIVE DispatchTrace(_, _, _)
DispatchTrace(s, r, actions) ==
  IF actions = <<>> THEN <<s>>
  ELSE <<s>> \o DispatchTrace(Dispatched(s, r, Head(actions)), r, Tail(actions))

\* The 0 ms callback of processEnemyTurn, closing over the same render r.
finishTurn(s, r, d) ==
  IF checkWinCondition(r) THEN ADD_LOG(SET_GAME_STATE(s, "victory"), "Victory!")
  ELSE IF checkLossCondition(r) THEN ADD_LOG(SET_GAME_STATE(s, "defeat"), "Defeat!")
  ELSE LET trace == DispatchTrace(s, r, finishTurnDispatches(r, d))
       IN trace[Len(trace)]

\* The callback without its setActionInProgress(false).
FinishTurnTimer_keepsLock ==
  /\ timer = "finishTurn"
  /\ state' = winLossEffect(finishTurn(state, closure.state, closure.difficulty))
  /\ timer' = "none"
  /\ closure' = NoClosure
  /\ UNCHANGED <<difficulty, logging, actionInProgress, call>>
  /\ LogRoom'

FinishTurnTimer ==
  /\ timer = "finishTurn"
  /\ state' = winLossEffect(finishTurn(state, closure.state, closure.difficulty))
  /\ actionInProgress' = FALSE
  /\ timer' = "none"
  /\ closure' = NoClosure
  /\ UNCHANGED <<difficulty, logging, call>>
  /\ LogRoom'

\* The stats the result screen is given when the render s is a victory or
\* a defeat.
BattleResultStats(s) ==
  [turns |-> s.turn,
   remainingCreatures |-> Len(s.playerField) + Len(s.playerHand),
   enemiesDefeated |-> Len(s.enemyDeck) - (Len(s.enemyField) + Len(s.enemyHand))]

\* onPlayAgain of the result screen.
PlayAgain ==
  /\ state.gameState \in {"victory", "defeat"}
  /\ state' = SET_GAME_STATE(state, "setup")
  /\ UNCHANGED <<difficulty, actionInProgress, timer, closure, logging, call>>

Next ==
  \/ StartBattle
  \/ handlePlayerAction
  \/ UnlockTimer
  \/ EnemyTurnTimer
  \/ FinishTurnTimer
  \/ PlayAgain

Spec == Init /\ [][Next]_vars

\* The same program with the battle log recorded, up to MaxLog entries.
LogInit ==
  /\ state = InitialState
  /\ difficulty = "easy"
  /\ actionInProgress = FALSE
  /\ timer = "none"
  /\ closure = NoClosure
  /\ logging = TRUE
  /\ call = NoCall

\* One battle: the log is followed from its start until it is full.
LogNext ==
  \/ StartBattle
  \/ handlePlayerAction
  \/ UnlockTimer
  \/ EnemyTurnTimer
  \/ FinishTurnTimer

LogSpec == LogInit /\ [][LogNext]_vars

\* ---------------------------------------------------------- battle positions
\* Battle positions: states of the reducer in which combat has taken place
\* (enemy creatures deployed, creatures wounded, effects running), as the
\* handlers receive them.  The creatures are battle-ready versions of the
\* rosters above and the effects are the records applySpell builds.
Wounded(creature, health) == [creature EXCEPT !.currentHealth = health]

Afflicted(creature, healthEffect, duration) ==
  [creature EXCEPT !.activeEffects = Append(@,
     [name |-> "spell", duration |-> duration, statEffect |-> Undefined,
      healthEffect |-> healthEffect])]

P1 == PlayerBattleCreature(N1)
P2 == PlayerBattleCreature(N2)
E1 == EnemyBattleCreature(G1, 0)
E2 == EnemyBattleCreature(G2, 1)
E3 == EnemyBattleCreature(G3, 2)

Position(d, playerHand, playerField, playerSpells, enemyHand, enemyField) ==
  [difficulty |-> d,
   state |-> [gameState |-> "battle", turn |-> 1, activePlayer |-> "player",
              playerDeck |-> <<>>, playerHand |-> playerHand,
              playerField |-> playerField, playerEnergy |-> 10,
              playerTools |-> <<>>, playerSpells |-> playerSpells,
              enemyDeck |-> <<>>, enemyHand |-> enemyHand,
              enemyField |-> enemyField, enemyEnergy |-> 10,
              battleLog |-> <<>>]]

Positions ==
  {\* the enemy's last creature within reach of one attack or spell
   Position("easy", <<>>, <<P2>>, <<DrainSpell>>, <<>>, <<Wounded(E1, 9)>>),
   \* both sides' last creatures about to fall to a running effect
   Position("easy", <<>>, <<Afflicted(Wounded(P1, 3), -5, 2)>>, <<>>,
            <<>>, <<Afflicted(Wounded(E1, 3), -5, 2)>>),
   \* the player's last creature about to fall, the enemy still holding a card
   Position("medium", <<>>, <<Afflicted(Wounded(P1, 3), -5, 2)>>, <<>>,
            <<E2>>, <<E1>>),
   \* a full enemy field against one wounded defender
   Position("easy", <<>>, <<Wounded(P2, 15)>>, <<>>,
            <<>>, <<Wounded(E1, 9), Wounded(E2, 9), Wounded(E3, 9)>>),
   \* two enemy creatures whose energy attributes (4 and 6) add up to 10, and
   \* a card the enemy can pay for
   Position("medium", <<>>, <<P1>>, <<>>, <<E3>>, <<E1, E2>>),
   \* a collection of four creatures on hard as the battle starts: three
   \* cards in hand (energy cost 8 each) and one left in the deck
   [Position("hard",
             <<P2, PlayerBattleCreature(Nft(6, N2.stats, "Common", 0)),
               PlayerBattleCreature(Nft(7, N2.stats, "Common", 0))>>,
             <<>>, <<>>, <<E1>>, <<>>)
      EXCEPT !.state.playerDeck = <<PlayerBattleCreature(Nft(5, N2.stats, "Common", 0))>>]}

BattleInit ==
  /\ \E position \in Positions :
       /\ state = position.state
       /\ difficulty = position.difficulty
  /\ actionInProgress = FALSE
  /\ timer = "none"
  /\ closure = NoClosure
  /\ logging = FALSE
  /\ call = NoCall

\* One battle, from a position to its end.
BattleNext ==
  \/ handlePlayerAction
  \/ UnlockTimer
  \/ EnemyTurnTimer
  \/ FinishTurnTimer

BattleSpec == BattleInit /\ [][BattleNext]_vars

\* A battle from a position, the result screen's reset and the battles set
\* up after it.
\* The battle that follows the reset is followed up to turn ReplayTurns.
ReplayTurns == 2

ReplayNext ==
  \/ StartBattle /\ state'.turn <= ReplayTurns
  \/ handlePlayerAction /\ state'.turn <= ReplayTurns
  \/ UnlockTimer
  \/ EnemyTurnTimer
  \/ FinishTurnTimer /\ state'.turn <= ReplayTurns
  \/ PlayAgain

ReplaySpec == BattleInit /\ [][ReplayNext]_vars

\* A position with a faulty record on the enemy's field: a creature without
\* battleStats, which makes attackCreature throw when the AI attacks with it.
Faulty(creature) == [creature EXCEPT !.battleStats = Undefined]

FaultPositions ==
  {Position("easy", <<>>, <<P2>>, <<>>, <<>>, <<Faulty(E1)>>),
   Position("easy", <<>>, <<P2, P1>>, <<DrainSpell>>, <<>>, <<Faulty(E1), Faulty(E2)>>)}

FaultInit ==
  /\ \E position \in FaultPositions :
       /\ state = position.state
       /\ difficulty = position.difficulty
  /\ actionInProgress = FALSE
  /\ timer = "none"
  /\ closure = NoClosure
  /\ logging = FALSE
  /\ call = NoCall

FaultSpec == FaultInit /\ [][BattleNext]_vars

\* The callbacks are timers of the browser: each one that is pending runs.
Fairness ==
  /\ WF_vars(UnlockTimer)
  /\ WF_vars(EnemyTurnTimer)
  /\ WF_vars(FinishTurnTimer)

FairSpec == Spec /\ Fairness

\* ------------------------------------------------------------ resolver calls
\* The resolvers of battleCore and battleCalculations called on their own:
\* call holds the arguments, and after the call the function and its result.
Combatant(id, battleStats) ==
  BattleReady(Nft(id, Attrs(5, 5, 5, 5, 5), "Common", 0), battleStats)

\* Attackers and defenders: one with physicalAttack 20 and a critical chance
\* of 0, one with physicalDefense 5 and a dodge chance of 0, one whose
\* defences exceed every attack value, creatures of the rosters (with a tie of
\* the attack values, without base attributes) and one without battleStats.
Combatants ==
  {Combatant(21, [DefaultStats EXCEPT !.physicalAttack = 20, !.criticalChance = 0]),
   Combatant(22, [DefaultStats EXCEPT !.physicalDefense = 5, !.dodgeChance = 0]),
   Combatant(23, [DefaultStats EXCEPT !.physicalDefense = 100, !.magicalDefense = 100]),
   P1, P2, PlayerBattleCreature(N3), E2, Faulty(E1)}

\* The Math.random() draws lie around the default chances (5% and 3%) and at
\* the ends of their ranges.
AttackCalls ==
  {[op |-> "pending", kind |-> "attack", attacker |-> a, defender |-> d,
    attackType |-> t, draws |-> Draw(v, c, dr)] :
      a \in Combatants, d \in Combatants, t \in {"physical", "magical", "auto"},
      v \in {90, 100, 110}, c \in {0, 50, 51, 999}, dr \in {0, 30, 31, 999}}

\* The defender's base attributes range over a small grid, the missing ones
\* and those of the spec's scenario.
EffectivenessCalls ==
  {[op |-> "pending", kind |-> "effectiveness", attackType |-> t,
    attackerStats |-> a, defenderStats |-> d] :
      t \in {"physical", "magical"}, a \in {Undefined, Attrs(5, 5, 5, 5, 5)},
      d \in {Attrs(e, st, m, sta, sp) :
               e \in 0..2, st \in 0..1, m \in 0..2, sta \in 0..2, sp \in 0..1}
            \cup {Undefined, Attrs(2, 5, 5, 10, 5)}}

\* Tools of every type on a creature with defences 10/10 (unhurt and
\* wounded), a creature of the rosters and one without battleStats.
ToolCalls ==
  {[op |-> "pending", kind |-> "tool", creature |-> c,
    tool |-> [id |-> 9, tool_type |-> t, tool_effect |-> e]] :
      c \in LET squire == Combatant(24, [DefaultStats EXCEPT !.physicalDefense = 10,
                                                             !.magicalDefense = 10])
            IN {squire, Wounded(squire, 20), P2, Faulty(E1)},
      t \in {"energy", "strength", "magic", "stamina", "speed", "unknown"},
      e \in {"Default", "Shield", "Drain"}}

\* Calls of the effect engine, the item effects and the AI decision.
\*   effects: fields of one or two creatures: unhurt, wounded, defending,
\*     with the effect of a Shield tool, with damage and healing over time
\*     (one that kills, one that exceeds maxHealth, one that expires), with
\*     two effects, and without battleStats;
\*   toolEffect, spellEffect: every type, known or not, with every effect kind
\*     ("Default" is a descriptor without one of the five kinds);
\*   spell: casters with magic 10 (unhurt and wounded) and without base
\*     attributes, casting on themselves and on others;
\*   ai: every difficulty and one that is not known, enemy fields of 0 to 6
\*     creatures, hands the enemy can and cannot pay for, energy from 0 up;
\*   difficulty: every difficulty and one that is not known;
\*   rarity: every difficulty with every draw from 0 to 0.99.
EngineCalls ==
  LET squire == Combatant(24, [DefaultStats EXCEPT !.physicalDefense = 10,
                                                   !.magicalDefense = 10])
      Subject(id, c) == [c EXCEPT !.id = id]
      shielded == applyTool(squire, [id |-> 9, tool_type |-> "strength",
                                     tool_effect |-> "Shield"]).updatedCreature
      subjects ==
        {Subject(31, squire), Subject(32, Wounded(squire, 3)),
         Subject(33, defendCreature(squire)), Subject(34, shielded),
         Subject(35, Afflicted(Wounded(squire, 3), -5, 2)),
         Subject(36, Afflicted(Wounded(squire, 45), 10, 1)),
         Subject(37, Afflicted(Afflicted(Wounded(squire, 20), -5, 1), 10, 3)),
         Subject(38, Faulty(squire))}
      types == {"energy", "strength", "magic", "stamina", "speed", "unknown"}
      kinds == {"Surge", "Shield", "Echo", "Drain", "Charge", "Default"}
      difficulties == {"easy", "medium", "hard", "expert", "nightmare"}
      casters == {P1, Wounded(P1, 20), PlayerBattleCreature(N3)}
      spells == {DrainSpell, PoisonSpell, MendSpell,
                 [id |-> 4, spell_type |-> "magic", spell_effect |-> "Shield"]}
      row == <<E1, Wounded(E2, 9), E3, E1, E2, E3>>
  IN {[op |-> "pending", kind |-> "effects", creatures |-> f] :
        f \in {<<c>> : c \in subjects}
              \cup {<<p[1], p[2]>> : p \in {q \in subjects \X subjects : q[1].id < q[2].id}}}
     \cup {[op |-> "pending", kind |-> "toolEffect",
            tool |-> [id |-> 9, tool_type |-> ty, tool_effect |-> k]] :
              ty \in types, k \in kinds}
     \cup {[op |-> "pending", kind |-> "spellEffect", casterMagic |-> m,
            spell |-> [id |-> 9, spell_type |-> ty, spell_effect |-> k]] :
              ty \in types, k \in kinds, m \in {0, 10}}
     \cup {[op |-> "pending", kind |-> "spell", caster |-> c, target |-> x, spell |-> sp] :
              c \in casters,
              x \in casters \cup {squire, Wounded(E1, 9), Wounded(E1, 30), Faulty(E1)},
              sp \in spells}
     \cup {[op |-> "pending", kind |-> "ai", difficulty |-> d, enemyHand |-> h,
            enemyField |-> Take(row, n), playerField |-> pf, enemyEnergy |-> e] :
              d \in difficulties, h \in {<<>>, <<E2>>, <<E2, E3>>}, n \in 0..6,
              pf \in {<<>>, <<P1>>, <<P1, Wounded(P2, 15)>>}, e \in {0, 2, 3, 5, 10}}
     \cup {[op |-> "pending", kind |-> "difficulty", difficulty |-> d] : d \in difficulties}
     \cup {[op |-> "pending", kind |-> "rarity", difficulty |-> d, rnd |-> rnd] :
              d \in difficulties, rnd \in 0..99}

ResolverInit ==
  /\ state = InitialState
  /\ difficulty = "easy"
  /\ actionInProgress = FALSE
  /\ timer = "none"
  /\ closure = NoClosure
  /\ logging = FALSE
  /\ call \in AttackCalls \cup EffectivenessCalls \cup ToolCalls \cup EngineCalls

Returned(op, result) == [call EXCEPT !.op = op] @@ [result |-> result]

processAttackCall ==
  /\ call.op = "pending" /\ call.kind = "attack"
  /\ call' = Returned("processAttack",
                processAttack(call.attacker, call.defender, call.attackType,
                              call.draws.variance100, call.draws.criticalRoll,
                              call.draws.dodgeRoll))
  /\ UNCHANGED <<state, difficulty, actionInProgress, timer, closure, logging>>

calculateDamageCall ==
  /\ call.op = "pending" /\ call.kind = "attack" /\ call.attackType # "auto"
  /\ call' = Returned("calculateDamage",
                [damageResult |->
                   calculateDamage(call.attacker, call.defender, call.attackType,
                                   call.draws.variance100, call.draws.criticalRoll,
                                   call.draws.dodgeRoll)])
  /\ UNCHANGED <<state, difficulty, actionInProgress, timer, closure, logging>>

getEffectivenessCall ==
  /\ call.op = "pending" /\ call.kind = "effectiveness"
  /\ LET multiplier100 == getEffectivenessMultiplier100(call.attackType, call.attackerStats,
                                                        call.defenderStats)
     IN call' = Returned("getEffectivenessMultiplier",
                  [multiplier100 |-> multiplier100,
                   text |-> getEffectivenessText(multiplier100)])
  /\ UNCHANGED <<state, difficulty, actionInProgress, timer, closure, logging>>

applyToolCall ==
  /\ call.op = "pending" /\ call.kind = "tool"
  /\ call' = Returned("applyTool", applyTool(call.creature, call.tool))
  /\ UNCHANGED <<state, difficulty, actionInProgress, timer, closure, logging>>

\* The state machine's applyOngoingEffects on a render whose player field is
\* call.creatures; the result is the field it dispatches.
applyOngoingEffectsCall ==
  /\ call.op = "pending" /\ call.kind = "effects"
  /\ LET r == [InitialState EXCEPT !.gameState = "battle", !.playerField = call.creatures]
     IN call' = Returned("applyOngoingEffects",
                  [creatures |-> applyOngoingEffects(r, r).playerField])
  /\ UNCHANGED <<state, difficulty, actionInProgress, timer, closure, logging>>

coreApplyOngoingEffectsCall ==
  /\ call.op = "pending" /\ call.kind = "effects"
  /\ call' = Returned("coreApplyOngoingEffects",
                [creatures |-> coreApplyOngoingEffects(call.creatures)])
  /\ UNCHANGED <<state, difficulty, actionInProgress, timer, closure, logging>>

getToolEffectCall ==
  /\ call.op = "pending" /\ call.kind = "toolEffect"
  /\ call' = Returned("getToolEffect", getToolEffect(call.tool))
  /\ UNCHANGED <<state, difficulty, actionInProgress, timer, closure, logging>>

getSpellEffectCall ==
  /\ call.op = "pending" /\ call.kind = "spellEffect"
  /\ call' = Returned("getSpellEffect", getSpellEffect(call.spell, call.casterMagic))
  /\ UNCHANGED <<state, difficulty, actionInProgress, timer, closure, logging>>

applySpellCall ==
  /\ call.op = "pending" /\ call.kind = "spell"
  /\ call' = Returned("applySpell", applySpell(call.caster, call.target, call.spell))
  /\ UNCHANGED <<state, difficulty, actionInProgress, timer, closure, logging>>

\* The result is one of the actions the Math.random() draws allow.
customDetermineAIActionCall ==
  /\ call.op = "pending" /\ call.kind = "ai"
  /\ \E aiAction \in customDetermineAIAction(call.difficulty, call.enemyHand,
                          call.enemyField, call.playerField, call.enemyEnergy) :
       call' = Returned("customDetermineAIAction", aiAction)
  /\ UNCHANGED <<state, difficulty, actionInProgress, timer, closure, logging>>

\* The places that consult the difficulty apart from the AI decision.
getDifficultyCall ==
  /\ call.op = "pending" /\ call.kind = "difficulty"
  /\ call' = Returned("getDifficultySettings",
                [settings |-> getDifficultySettings(call.difficulty),
                 maxHandSize |-> getMaxHandSize(call.difficulty)])
  /\ UNCHANGED <<state, difficulty, actionInProgress, timer, closure, logging>>

\* selectRarity(settings.enemyRarity) as generateEnemyCreatures calls it.
selectRarityCall ==
  /\ call.op = "pending" /\ call.kind = "rarity"
  /\ call' = Returned("selectRarity",
                [rarity |-> selectRarity(getDifficultySettings(call.difficulty).enemyRarity,
                                         call.rnd)])
  /\ UNCHANGED <<state, difficulty, actionInProgress, timer, closure, logging>>

ResolverNext ==
  \/ processAttackCall
  \/ calculateDamageCall
  \/ getEffectivenessCall
  \/ applyToolCall
  \/ applyOngoingEffectsCall
  \/ coreApplyOngoingEffectsCall
  \/ getToolEffectCall
  \/ getSpellEffectCall
  \/ applySpellCall
  \/ customDetermineAIActionCall
  \/ getDifficultyCall
  \/ selectRarityCall

ResolverSpec == ResolverInit /\ [][ResolverNext]_vars

\* ------------------------------------------------------------------- claims
OnField == Range(state.playerField) \cup Range(state.enemyField)

\* The player may act: the lock is free, the player is the active side and the
\* game is in battle.
PlayerMayAct ==
  ~actionInProgress /\ state.activePlayer = "player" /\ state.gameState = "battle"

\* A battle has started and has not been reset.
BattleStarted == state.gameState \in {"battle", "victory", "defeat"}

\* C1: every creature on the player's or the enemy's field has a current
\* health between 0 and its maximum health.
C1_HealthBounds ==
  \A c \in OnField : 0 <= c.currentHealth /\ c.currentHealth <= c.battleStats.maxHealth

\* An attack has taken more than the health the defender had left: the
\* defender stands at 0.
C1_Witness ==
  /\ timer = "unlock"
  /\ \E c \in Range(state.enemyField) : c.currentHealth = 0

\* C2: both energies stay between 0 and 15, whatever is deployed, cast or
\* regenerated.
C2_EnergyBounds ==
  /\ 0 <= state.playerEnergy /\ state.playerEnergy <= 15
  /\ 0 <= state.enemyEnergy /\ state.enemyEnergy <= 15

\* A regeneration that the cap cut short: the player had more than 11 energy
\* when the turn ended and has 15 now.
C2_Witness ==
  /\ state.gameState = "battle"
  /\ state.turn > 1
  /\ state.playerEnergy = 15
  /\ state.enemyEnergy < 10

\* C3: neither field holds more creatures than the difficulty's maximum
\* field size (3 on easy, 4 on medium, 5 on hard, 6 on expert).
C3_FieldSize ==
  /\ Len(state.playerField) <= getDifficultySettings(difficulty).maxFieldSize
  /\ Len(state.enemyField) <= getDifficultySettings(difficulty).maxFieldSize

\* The player's field is full on easy while the hand holds a card the player
\* can pay for.
C3_Witness ==
  /\ state.gameState = "battle"
  /\ difficulty = "easy"
  /\ Len(state.playerField) = 3
  /\ \E c \in Range(state.playerHand) : c.battleStats.energyCost <= state.playerEnergy

\* C4: once a battle has started, the game is in victory exactly when the
\* enemy's field, hand and deck are all empty.
C4_VictoryIffEnemyEmpty ==
  BattleStarted =>
    (state.gameState = "victory"
       <=> (state.enemyField = <<>> /\ state.enemyHand = <<>> /\ state.enemyDeck = <<>>))

\* A battle that was won.
C4_Witness ==
  /\ state.gameState = "victory"
  /\ state.enemyField = <<>> /\ state.enemyHand = <<>> /\ state.enemyDeck = <<>>
  /\ state.turn > 1

PlayerAllEmpty ==
  state.playerField = <<>> /\ state.playerHand = <<>> /\ state.playerDeck = <<>>

EnemyAllEmpty ==
  state.enemyField = <<>> /\ state.enemyHand = <<>> /\ state.enemyDeck = <<>>

Standing(field) == {i \in 1..Len(field) : field[i].currentHealth > 0}

IntentProcessed ==
  /\ state.gameState = "battle"
  /\ actionInProgress'
  /\ timer' \in {"unlock", "enemyTurn"}
  /\ (state' # state \/ timer' # timer)

\* C8: a player intent is processed only when the lock is free, the player is
\* the active side and the game is in battle; from the acceptance of EndTurn
\* until the enemy turn has completed the lock is held, so no intent is
\* processed in between.
C8_OneIntentAtATime ==
  [][/\ IntentProcessed => PlayerMayAct
     /\ timer' \in {"enemyTurn", "finishTurn"} => actionInProgress' /\ ~PlayerMayAct']_vars

\* The enemy has acted after an EndTurn and its turn is not over yet.
C8_Witness ==
  /\ timer = "finishTurn"
  /\ actionInProgress
  /\ state.activePlayer = "enemy"
  /\ state.enemyField # <<>>

\* C9: an enemy turn never leaves the game with the enemy as active side, the
\* lock held and no callback pending.
C9_EnemyTurnNeverStuck ==
  ~(/\ state.gameState = "battle"
    /\ state.activePlayer = "enemy"
    /\ actionInProgress
    /\ timer = "none")

\* C10: whenever the lock is held with a callback pending (an intent was
\* accepted and nothing threw), the lock is released later on, with the
\* battle over or the player as the active side.
C10_LockReleased ==
  (actionInProgress /\ timer # "none")
    ~> (/\ ~actionInProgress
        /\ (state.gameState \in {"victory", "defeat"} \/ state.activePlayer = "player"))

\* An EndTurn was accepted: the enemy's turn is pending.
C10_Witness ==
  /\ actionInProgress
  /\ timer = "enemyTurn"
  /\ state.activePlayer = "enemy"

\* C11: at the end of the enemy turn the draws and the energy regeneration
\* are applied while activePlayer is still 'enemy' (the switch to the player
\* comes last), and the win/loss check has run before the player may act.
C11_SwitchAfterDrawAndRegen ==
  /\ (timer = "finishTurn" /\ ~checkWinCondition(closure.state)
         /\ ~checkLossCondition(closure.state)) =>
       LET actions == finishTurnDispatches(closure.state, closure.difficulty)
           trace == DispatchTrace(state, closure.state, actions)
       IN \A i \in 1..Len(actions) :
            actions[i].type \in {"DRAW_CARD", "REGENERATE_ENERGY"} =>
              trace[i].activePlayer = "enemy"
  /\ PlayerMayAct => ~checkWinCondition(state) /\ ~checkLossCondition(state)

\* The creatures of a field that differ between two states.
Changed(before, after) == {c \in Range(after) : c \notin Range(before)}

\* C12: an accepted EndTurn that leaves the game in battle schedules the enemy
\* turn; the enemy turn applies at most one intent (one deployment, or one
\* attack or defence touching at most an attacker and a target) and hands
\* over to the closing step, which adds exactly 1 to turn and makes the player
\* the active side; within a battle nothing else changes turn, and turn >= 1.
C12_OneEnemyIntentPerTurn ==
  [][/\ (PlayerMayAct /\ state'.activePlayer = "enemy" /\ state'.gameState = "battle")
          => (timer' = "enemyTurn" /\ actionInProgress' /\ state'.turn = state.turn)
     /\ (timer = "enemyTurn" /\ state.gameState = "battle")
          => /\ timer' = "finishTurn"
             /\ state'.turn = state.turn /\ state'.activePlayer = "enemy"
             /\ Len(state'.enemyField) <= Len(state.enemyField) + 1
             /\ Len(state'.enemyHand) >= Len(state.enemyHand) - 1
             /\ Cardinality(Changed(state.playerField, state'.playerField)) <= 1
             /\ Cardinality(Changed(state.enemyField, state'.enemyField)) <= 1
             /\ state'.enemyDeck = state.enemyDeck /\ state'.playerHand = state.playerHand
     /\ (timer = "finishTurn" /\ state.gameState = "battle")
          => (state'.turn = state.turn + 1 /\ state'.activePlayer = "player"
              /\ timer' = "none" /\ ~actionInProgress')
     /\ (state.gameState = "battle" /\ state'.turn # state.turn) => timer = "finishTurn"
     /\ state'.turn >= 1]_vars

\* An enemy turn has been completed and the player may act again.
C12_Witness == PlayerMayAct /\ state.turn = 2 /\ timer = "none"

\* A Deploy issued with the field at capacity or with too little energy, or a
\* UseSpell issued with less than 4 energy.
RejectedIntent(intent) ==
  \/ /\ intent.type = "deploy"
     /\ \/ Len(state.playerField) >= 3
        \/ state.playerEnergy < OrElse(intent.source.battleStats.energyCost, 3)
  \/ intent.type = "useSpell" /\ state.playerEnergy < 4

\* C13: a Deploy with the field at capacity or too little energy, and a
\* UseSpell with less than 4 energy, leave decks, hands, fields, energies,
\* tools, spells, turn, activePlayer and gameState as they were and append
\* exactly one entry to the log.
C13_RejectedIntentOnlyLogs ==
  PlayerMayAct =>
    \A intent \in PlayerIntents(state) : RejectedIntent(intent) =>
      LET out == winLossEffect(PlayerOutcome(state, difficulty, intent).state)
      IN /\ [out EXCEPT !.battleLog = state.battleLog] = state
         /\ Len(out.battleLog) = Len(state.battleLog) + 1
         /\ SubSeq(out.battleLog, 1, Len(state.battleLog)) = state.battleLog

\* A rejection has just been logged and the lock is still held.
C13_Witness ==
  /\ timer = "unlock" /\ state.battleLog # <<>>
  /\ state.battleLog[Len(state.battleLog)].message
       \in {"Your battlefield is full!", "Not enough energy to deploy",
            "Not enough energy to cast"}

\* A tool used on a creature without battleStats, or a spell cast by a caster
\* without stats or on a target without battleStats: the resolver returns its
\* input with a null effect.
NullEffectIntent(intent) ==
  \/ intent.type = "useTool" /\ intent.source.battleStats = Undefined
  \/ /\ intent.type = "useSpell"
     /\ \/ intent.source.stats = Undefined
        \/ (IF intent.target = Undefined THEN intent.source
            ELSE intent.target).battleStats = Undefined

\* C14: when the resolver of a tool or a spell returns a null effect, the
\* fields, playerEnergy, playerTools and playerSpells are left unchanged.
C14_NullEffectChangesNothing ==
  PlayerMayAct =>
    \A intent \in PlayerIntents(state) : NullEffectIntent(intent) =>
      LET out == winLossEffect(PlayerOutcome(state, difficulty, intent).state)
      IN /\ out.playerField = state.playerField /\ out.enemyField = state.enemyField
         /\ out.playerEnergy = state.playerEnergy
         /\ out.playerTools = state.playerTools /\ out.playerSpells = state.playerSpells

\* A call of processAttack or calculateDamage has returned.
AttackResolved == call.op \in {"processAttack", "calculateDamage"}

\* C15: in every result of processAttack or calculateDamage, whatever the
\* creatures (with or without battleStats) and the rolls, damage is 0 exactly
\* when the attack was dodged, and at least 1 when it was not.
C15_ZeroDamageIffDodged ==
  AttackResolved =>
    LET r == call.result.damageResult
    IN (r.damage = 0 <=> r.isDodged) /\ (~r.isDodged => r.damage >= 1)

\* The spec's scenario A: physicalAttack 20 and criticalChance 0 against
\* physicalDefense 5 and dodgeChance 0, a physical attack of effectiveness 1.0
\* with variance 1.0.
ScenarioA ==
  /\ AttackResolved /\ call.attackType = "physical" /\ call.draws.variance100 = 100
  /\ call.attacker.battleStats # Undefined /\ call.defender.battleStats # Undefined
  /\ call.attacker.battleStats.physicalAttack = 20
  /\ call.attacker.battleStats.criticalChance = 0
  /\ call.defender.battleStats.physicalDefense = 5
  /\ call.defender.battleStats.dodgeChance = 0
  /\ call.defender.stats = Attrs(5, 5, 5, 5, 5)

\* C16: in scenario A the result is damage 15, not dodged and not critical,
\* whatever the dodge roll and the critical roll.
C16_ScenarioA ==
  ScenarioA =>
    LET r == call.result.damageResult
    IN r.damage = 15 /\ ~r.isDodged /\ ~r.isCritical

\* C18: the multiplier is, for a physical attack, 1.5 if the defender's stamina
\* exceeds its energy, else 0.75 if its magic exceeds its stamina, else 1.0;
\* for a magical attack, 1.5 if its speed exceeds its strength, else 0.75 if
\* its energy exceeds its magic, else 1.0; 1.0 when stats are missing; the
\* text is 'super effective' from 1.5, 'not very effective' up to 0.75, else
\* 'normal'.
C18_Effectiveness ==
  call.op = "getEffectivenessMultiplier" =>
    LET d == call.defenderStats
        expected ==
          IF call.attackerStats = Undefined \/ d = Undefined THEN 100
          ELSE IF call.attackType = "physical"
            THEN (IF d.stamina > d.energy THEN 150
                  ELSE IF d.magic > d.stamina THEN 75 ELSE 100)
            ELSE (IF d.speed > d.strength THEN 150
                  ELSE IF d.energy > d.magic THEN 75 ELSE 100)
    IN /\ call.result.multiplier100 = expected
       /\ call.result.text = (IF expected >= 150 THEN "super effective"
                              ELSE IF expected <= 75 THEN "not very effective"
                              ELSE "normal")

\* The spec's scenario C: stamina 10 above energy 2, a physical attack.
C18_Witness ==
  /\ call.op = "getEffectivenessMultiplier" /\ call.attackType = "physical"
  /\ call.attackerStats # Undefined /\ call.defenderStats = Attrs(2, 5, 5, 10, 5)
  /\ call.result = [multiplier100 |-> 150, text |-> "super effective"]

\* C19: a Shield tool of any type, applied to a creature with battleStats and
\* no active effects, adds 8 to physicalDefense and to magicalDefense, leaves
\* every other stat, currentHealth and the rest of the creature unchanged and
\* adds exactly one active effect, of duration 3.
C19_ShieldTool ==
  (/\ call.op = "applyTool" /\ call.tool.tool_effect = "Shield"
   /\ call.creature.battleStats # Undefined /\ call.creature.activeEffects = <<>>) =>
    LET c == call.creature
        u == call.result.updatedCreature
    IN /\ u.battleStats = [c.battleStats EXCEPT !.physicalDefense = @ + 8,
                                                 !.magicalDefense = @ + 8]
       /\ u.currentHealth = c.currentHealth
       /\ Len(u.activeEffects) = 1 /\ u.activeEffects[1].duration = 3
       /\ [u EXCEPT !.battleStats = c.battleStats, !.activeEffects = <<>>] = c

\* The spec's scenario D: defences 10/10 become 18/18.
C19_Witness ==
  /\ call.op = "applyTool" /\ call.tool.tool_effect = "Shield"
  /\ call.tool.tool_type = "unknown"
  /\ call.creature.battleStats # Undefined
  /\ call.creature.battleStats.physicalDefense = 10
  /\ call.creature.battleStats.magicalDefense = 10
  /\ call.result.updatedCreature.battleStats.physicalDefense = 18
  /\ call.result.updatedCreature.battleStats.magicalDefense = 18
  /\ Len(call.result.updatedCreature.activeEffects) = 1

\* The attack type the claim expects for an attacker.
ExpectedAttackType(attacker) ==
  IF attacker.battleStats.physicalAttack >= attacker.battleStats.magicalAttack
    THEN "physical" ELSE "magical"

RECURSIVE EnergySum(_)
EnergySum(field) ==
  IF field = <<>> THEN 0
  ELSE (IF Head(field).stats = Undefined THEN 0 ELSE Head(field).stats.energy)
       + EnergySum(Tail(field))

\* min(15, energy + 4 + floor(0.2 * S)) for the field as it is before the
\* closing step, after it, or in the render the step works from.
RegeneratedEnergy(energy, before, after, rendered) ==
  {Min(15, energy + 4 + (EnergySum(field) \div 5)) : field \in {before, after, rendered}}

\* C20: the step that closes a round gives each side min(15, old energy + 4 +
\* floor(0.2 * S)), S being the sum of the energy attribute over the creatures
\* on that side's field.
C20_EnergyRegeneration ==
  [][(timer = "finishTurn" /\ state.gameState = "battle" /\ state'.turn = state.turn + 1) =>
       /\ state'.playerEnergy \in
            RegeneratedEnergy(state.playerEnergy, state.playerField, state'.playerField,
                              closure.state.playerField)
       /\ state'.enemyEnergy \in
            RegeneratedEnergy(state.enemyEnergy, state.enemyField, state'.enemyField,
                              closure.state.enemyField)]_vars


\* Every creature of the battle: on the fields, in the hands and in the decks.
AllCreatures ==
  Range(state.playerField) \cup Range(state.enemyField)
    \cup Range(state.playerHand) \cup Range(state.enemyHand)
    \cup Range(state.playerDeck) \cup Range(state.enemyDeck)

\* C21: every effect in the activeEffects of any creature has a duration of
\* at least 1: no tool, spell or defend action attaches an effect with
\* duration <= 0 and no tick leaves one behind.
C21_EffectDurationPositive ==
  \A c \in AllCreatures :
    \A i \in 1..Len(c.activeEffects) : c.activeEffects[i].duration >= 1

\* A tool's effect has been ticked down to its last turn on a creature of a
\* field.
C21_Witness ==
  /\ state.turn > 1
  /\ \E c \in OnField :
       \E i \in 1..Len(c.activeEffects) :
         c.activeEffects[i].name = "tool" /\ c.activeEffects[i].duration = 1


\* A tick of either implementation has returned.
Ticked == call.op \in {"applyOngoingEffects", "coreApplyOngoingEffects"}

\* The creatures with battleStats that went into the tick.
TickSubjects == {c \in Range(call.creatures) : c.battleStats # Undefined}

\* The creatures with the id of c that came out of the tick.
AfterTick(c) == {u \in Range(call.result.creatures) : u.id = c.id}

\* currentHealth after each health effect in turn, clamped to [0, maxHealth].
RECURSIVE ClampedHealth(_, _, _)
ClampedHealth(health, maxHealth, effects) ==
  IF effects = <<>> THEN health
  ELSE ClampedHealth(Min(maxHealth, Max(0, health + Head(effects).healthEffect)),
                     maxHealth, Tail(effects))

\* The effects with a duration above 1, each one turn shorter.
RECURSIVE OneTurnShorter(_)
OneTurnShorter(effects) ==
  IF effects = <<>> THEN <<>>
  ELSE (IF Head(effects).duration > 1
          THEN <<[Head(effects) EXCEPT !.duration = Head(effects).duration - 1]>>
          ELSE <<>>)
       \o OneTurnShorter(Tail(effects))

\* C22: one tick, of the state machine or of the exported helper, applies
\* each active effect's healthEffect to currentHealth clamped to
\* [0, maxHealth]; an effect of duration d > 1 is left with d - 1 and one of
\* duration d <= 1 is removed.  (A creature the tick takes off the field has
\* fallen to 0.)
C22_TickHealthAndDuration ==
  Ticked =>
    \A c \in TickSubjects :
      LET health == ClampedHealth(c.currentHealth, c.battleStats.maxHealth, c.activeEffects)
      IN /\ AfterTick(c) = {} => health = 0
         /\ \A u \in AfterTick(c) :
              /\ u.currentHealth = health
              /\ u.activeEffects = OneTurnShorter(c.activeEffects)


\* C23: a tick, of the state machine or of the exported helper, never changes
\* a creature's battleStats: the stat deltas of an effect are applied when
\* the effect is created and not again by a tick.
C23_TickKeepsBattleStats ==
  Ticked =>
    \A c \in TickSubjects : \A u \in AfterTick(c) : u.battleStats = c.battleStats

\* A living creature without active effects that is not defending.
Idle(c) ==
  /\ c.battleStats # Undefined /\ c.currentHealth > 0
  /\ c.activeEffects = <<>> /\ ~c.isDefending

\* C24: a tick on a living creature without active effects and not defending
\* returns the creature unchanged and keeps it on the field.
C24_IdleCreatureUnchanged ==
  Ticked =>
    \A i \in 1..Len(call.creatures) :
      Idle(call.creatures[i]) =>
        \E j \in 1..Len(call.result.creatures) :
          /\ call.result.creatures[j] = call.creatures[i]
          /\ j <= i

\* Both implementations have ticked a field with an idle creature next to one
\* that the tick changes.
C24_Witness ==
  /\ Ticked
  /\ \E i \in 1..Len(call.creatures) : Idle(call.creatures[i])
  /\ \E i \in 1..Len(call.creatures) : call.creatures[i].activeEffects # <<>>


\* C25: getToolEffect and getSpellEffect return an effect payload without
\* throwing for every descriptor, whatever the combination of a known or
\* unknown type with an effect kind, and a descriptor without an effect kind
\* yields the base effect of its type.
C25_ItemEffectsNeverThrow ==
  /\ call.op = "getToolEffect" =>
       /\ ~call.result.throws
       /\ call.tool.tool_effect = "Default" =>
            LET baseEffect == ToolBaseEffect(call.tool.tool_type)
            IN /\ call.result.statChanges = baseEffect.statChanges
               /\ call.result.healthChange = baseEffect.healthChange
               /\ call.result.duration = baseEffect.duration
  /\ (call.op = "getSpellEffect" /\ call.spell.spell_effect = "Default") =>
         LET baseEffect == SpellBaseEffect(call.spell.spell_type,
                                           magicPower10(call.casterMagic))
         IN /\ call.result.damage = baseEffect.damage
            /\ call.result.healing = baseEffect.healing
            /\ call.result.statChanges = baseEffect.statChanges
            /\ call.result.duration = baseEffect.duration


\* applySpell has been called with a spell of the given effect kind by a
\* caster with base attributes on another creature with battleStats.
SpellCast(kind) ==
  /\ call.op = "applySpell" /\ call.spell.spell_effect = kind
  /\ call.caster.stats # Undefined /\ call.target.battleStats # Undefined
  /\ call.caster.id # call.target.id

\* C26: a Drain spell reduces the target's currentHealth by the spell's
\* damage (not below 0), raises the caster's currentHealth by half of that
\* damage (not above maxHealth) and attaches no lasting effect.
C26_DrainSpell ==
  SpellCast("Drain") =>
    LET damage == call.result.spellEffect.damage
    IN /\ damage > 0
       /\ call.result.updatedTarget.currentHealth
            = Max(0, call.target.currentHealth - damage)
       /\ call.result.updatedCaster.currentHealth
            = Min(call.caster.battleStats.maxHealth,
                  call.caster.currentHealth + damage \div 2)
       /\ call.result.updatedTarget.activeEffects = call.target.activeEffects
       /\ call.result.updatedCaster.activeEffects = call.caster.activeEffects

\* C27: a spell whose effect carries stat deltas applies them to the target's
\* battleStats when it is cast: a Shield spell raises physicalDefense and
\* magicalDefense by 10 each and attaches one active effect of duration 2.
C27_ShieldSpell ==
  SpellCast("Shield") =>
    LET before == call.target
        after == call.result.updatedTarget
    IN /\ after.battleStats.physicalDefense = before.battleStats.physicalDefense + 10
       /\ after.battleStats.magicalDefense = before.battleStats.magicalDefense + 10
       /\ Len(after.activeEffects) = Len(before.activeEffects) + 1
       /\ after.activeEffects[Len(after.activeEffects)].duration = 2


\* The AI decision has returned for the given arguments.
Decided == call.op = "customDetermineAIAction"

\* C28: the AI decision is EndTurn, whatever the difficulty's policy and the
\* random draws, whenever the enemy field is at the difficulty's max field
\* size, or the enemy energy is <= 0, or the enemy hand and field are both
\* empty.
C28_SafeguardsEndTurn ==
  (/\ Decided
   /\ \/ Len(call.enemyField) >= getDifficultySettings(call.difficulty).maxFieldSize
      \/ call.enemyEnergy <= 0
      \/ (call.enemyHand = <<>> /\ call.enemyField = <<>>))
    => call.result.type = "endTurn"


\* The decision was taken with a full field, energy, a card in hand and a
\* player creature to attack.
C28_Witness ==
  /\ Decided
  /\ Len(call.enemyField) = getDifficultySettings(call.difficulty).maxFieldSize
  /\ call.enemyEnergy > 0 /\ call.enemyHand # <<>> /\ call.playerField # <<>>
  /\ call.result.type = "endTurn"


\* The cards of the hand the enemy can pay for.
Payable == {c \in Range(call.enemyHand) : c.battleStats.energyCost <= call.enemyEnergy}

\* C29: a Deploy the AI decides on names a creature of the enemy hand whose
\* energyCost is at most the enemy energy, and the enemy field is below the
\* max field size; under the Easy policy (easy, hard and expert) the
\* decision is a Deploy whenever the field has room and a card of the hand is
\* affordable.
C29_DeployIsLegal ==
  Decided =>
    LET maxFieldSize == getDifficultySettings(call.difficulty).maxFieldSize
    IN /\ call.result.type = "deploy" =>
            /\ call.result.creature \in Payable
            /\ call.result.energyCost <= call.enemyEnergy
            /\ Len(call.enemyField) < maxFieldSize
       /\ (/\ call.difficulty \in {"easy", "hard", "expert"}
           /\ Len(call.enemyField) < maxFieldSize
           /\ Payable # {})
            => call.result.type = "deploy"

\* The AI deployed the one card it could pay for out of a hand of two.
C29_Witness ==
  /\ Decided /\ call.result.type = "deploy"
  /\ Payable # {} /\ Payable # Range(call.enemyHand)
  /\ call.enemyField # <<>> /\ call.playerField # <<>>


\* C30: a difficulty that is not known behaves like 'medium' wherever it is
\* consulted: the settings, the hand capacity, and the AI's decision (max
\* field size 4, Medium policy) are those of medium for the same arguments.
C30_UnknownDifficultyIsMedium ==
  /\ (call.op = "getDifficultySettings" /\ call.difficulty = "nightmare") =>
       /\ call.result.settings = getDifficultySettings("medium")
       /\ call.result.maxHandSize = getMaxHandSize("medium")
  /\ (Decided /\ call.difficulty = "nightmare") =>
       call.result \in customDetermineAIAction("medium", call.enemyHand, call.enemyField,
                                               call.playerField, call.enemyEnergy)


\* The weight, in hundredths, of a rarity in the table of a difficulty.
RarityWeight(d, rarity) ==
  LET w == getDifficultySettings(d).enemyRarity
  IN CASE rarity = "Common" -> w[1]
       [] rarity = "Rare" -> w[2]
       [] rarity = "Epic" -> w[3]
       [] rarity = "Legendary" -> w[4]

\* C31: rarity sampling never returns a rarity whose weight in the
\* difficulty's table is 0, for every value of the random draw in [0, 1).
C31_NoZeroWeightRarity ==
  call.op = "selectRarity" => RarityWeight(call.difficulty, call.result.rarity) > 0


\* Each side's hand is within the hand capacity of the difficulty.
HandsWithinCapacity ==
  state.gameState = "battle" =>
    /\ Len(state.playerHand) <= getMaxHandSize(difficulty)
    /\ Len(state.enemyHand) <= getMaxHandSize(difficulty)

\* A step that makes the hand `after` longer than `before` is a draw at round
\* end: the hand was below the capacity, the deck was not empty, and the
\* first card of the deck moved to the end of the hand.
DrawnByRule(before, after, deck, deckAfter) ==
  Len(after) > Len(before) =>
    /\ timer = "finishTurn"
    /\ Len(before) < getMaxHandSize(difficulty)
    /\ deck # <<>>
    /\ after = Append(before, Head(deck))
    /\ deckAfter = Tail(deck)

\* C32: in every battle state each side's hand size is at most the hand
\* capacity of the difficulty (getMaxHandSize); a card is drawn at round end
\* only if the hand is below that capacity and the deck is not empty, and
\* then the first card of the deck moves to the hand.
C32_HandCapacity ==
  /\ []HandsWithinCapacity
  /\ [][state.gameState = "battle" =>
          /\ DrawnByRule(state.playerHand, state'.playerHand,
                         state.playerDeck, state'.playerDeck)
          /\ DrawnByRule(state.enemyHand, state'.enemyHand,
                         state.enemyDeck, state'.enemyDeck)]_vars


\* The turn stamps do not decrease along the log.
StampsInOrder(log) ==
  \A i \in 1..Len(log) : \A j \in i..Len(log) : log[i].turn <= log[j].turn

\* C33: within one battle the log is append-only: every step leaves the
\* existing entries unchanged as a prefix of the new log, each new entry is
\* stamped with the turn current when it is appended (the turn before or
\* after the step, which may increment it), and the stamps do not decrease
\* along the log.
C33_LogAppendOnly ==
  [][LET log == state.battleLog
         after == state'.battleLog
     IN /\ Len(after) >= Len(log)
        /\ SubSeq(after, 1, Len(log)) = log
        /\ \A i \in (Len(log) + 1)..Len(after) :
             after[i].turn \in {state.turn, state'.turn}
        /\ after # <<>> => after[Len(after)].turn = state'.turn
        /\ StampsInOrder(after)]_vars

\* The log holds entries of the first and of the second turn, the tick's and
\* the draw's among them.
C33_Witness ==
  /\ logging /\ state.turn = 2
  /\ \E i \in 1..Len(state.battleLog) : state.battleLog[i].turn = 1
  /\ \E i \in 1..Len(state.battleLog) : state.battleLog[i].turn = 2
  /\ Len(state.battleLog) >= 8


\* The result screen is shown.
ResultShown == state.gameState \in {"victory", "defeat"}

\* The number of enemy creatures generated when the battle was set up.
RosterSize == Len(CHOOSE roster \in EnemyRosters(difficulty) : TRUE)

\* C34: the result summary's "enemies defeated" is never negative, and on
\* victory it equals the size of the enemy roster generated at battle start.
C34_EnemiesDefeated ==
  ResultShown =>
    /\ BattleResultStats(state).enemiesDefeated >= 0
    /\ state.gameState = "victory" =>
         BattleResultStats(state).enemiesDefeated = RosterSize


\* The creature's battleStats are the ones it entered the battle with (the
\* energy cost, which initializeBattle sets for enemies, left aside).
OriginalStats(c) ==
  [c.battleStats EXCEPT !.energyCost = 0] = [calculateDerivedStats(c) EXCEPT !.energyCost = 0]

\* C35: a timed effect's stat change lasts only while the effect is active:
\* a creature on a field that has no effect left (its Defending effect has
\* expired) has the battleStats it had before the effect was applied, however
\* often it defended.
C35_StatChangeExpires ==
  \A c \in Range(state.playerField) \cup Range(state.enemyField) :
    c.activeEffects = <<>> => OriginalStats(c)


\* Creature c, which has no effect running, is on `field` as it is.
StillOn(c, field) ==
  \E i \in 1..Len(field) : field[i].id = c.id /\ field[i].currentHealth = c.currentHealth

\* C36: the result of the enemy's action persists to the player's next
\* turn: when the round's closing callback has run and the battle goes on,
\* a creature the enemy has on the field (deployed in this turn or before)
\* is still there and not in the enemy's hand, and a player creature keeps the
\* health the enemy's attack left it with; the tick does not put the fields
\* back to what they were before the enemy acted.
C36_EnemyActionPersists ==
  [][(timer = "finishTurn" /\ timer' = "none" /\ state'.gameState = "battle") =>
       /\ \A c \in Range(state.enemyField) :
            c.activeEffects = <<>> =>
              /\ StillOn(c, state'.enemyField)
              /\ \A h \in Range(state'.enemyHand) : h.id # c.id
       /\ \A c \in Range(state.playerField) :
            c.activeEffects = <<>> => StillOn(c, state'.playerField)]_vars


\* The ids of a sequence of creatures, with repetitions.
Ids(creatures) == [i \in 1..Len(creatures) |-> creatures[i].id]

PlayerZones(s) == Ids(s.playerDeck) \o Ids(s.playerHand) \o Ids(s.playerField)
EnemyZones(s) == Ids(s.enemyDeck) \o Ids(s.enemyHand) \o Ids(s.enemyField)

\* No id occurs twice.
Distinct(ids) == \A i \in 1..Len(ids) : \A j \in 1..Len(ids) : ids[i] = ids[j] => i = j

\* Creature c of `field` can fall in this step: an effect brings its health
\* to 0, or the other side has a creature on the field to attack it or cast
\* on it.
MayFall(c, opposing) == TickCreature(c).currentHealth <= 0 \/ opposing # <<>>

\* Every creature of the side's zones is in the zones after the step, unless
\* it was on the field and may have fallen.
Conserved(zones, after, field, opposing) ==
  \A i \in 1..Len(zones) :
    (\E j \in 1..Len(after) : after[j] = zones[i])
    \/ \E k \in 1..Len(field) : field[k].id = zones[i] /\ MayFall(field[k], opposing)

\* C37: creatures are conserved: in every battle state each creature is in
\* exactly one of its side's deck, hand and field and in none of the other
\* side's, and in every step of a battle a creature leaves its side's zones
\* only from the field and only when it can have fallen; none is added.
C37_CreaturesConserved ==
  /\ [](state.gameState = "battle" =>
          Distinct(PlayerZones(state) \o EnemyZones(state)))
  /\ [][state.gameState = "battle" =>
          /\ Conserved(PlayerZones(state), PlayerZones(state'),
                       state.playerField, state.enemyField)
          /\ Conserved(EnemyZones(state), EnemyZones(state'),
                       state.enemyField, state.playerField)
          /\ Range(PlayerZones(state')) \subseteq Range(PlayerZones(state))
          /\ Range(EnemyZones(state')) \subseteq Range(EnemyZones(state))]_vars


\* What the battle is played on: everything of the reducer state but the
\* phase, the inventories and the log.
BattleData(s) ==
  <<s.turn, s.activePlayer, s.playerEnergy, s.enemyEnergy, s.playerDeck, s.enemyDeck,
    s.playerHand, s.enemyHand, s.playerField, s.enemyField>>

Fresh(s) ==
  /\ s.turn = 1 /\ s.activePlayer = "player"
  /\ s.playerEnergy = 10 /\ s.enemyEnergy = 10
  /\ s.playerField = <<>> /\ s.enemyField = <<>>

\* A callback of the enemy's turn is pending although the battle is in the
\* player's turn: End Turn makes the enemy active before it schedules one, so
\* this callback was scheduled during the previous battle.
OldCallbackPending ==
  /\ state.gameState = "battle" /\ state.activePlayer = "player"
  /\ timer \in {"enemyTurn", "finishTurn"}

====
